---- MODULE Spec2Model ----
(***************************************************************************)
(* Static validation of Composition patches against CRD schemas.          *)
(*                                                                         *)
(* The validation core is a set of pure functions.  A behaviour of this   *)
(* model is one call: the initial state holds the entry point `fn` and    *)
(* its arguments `args` (drawn from bounded sets), and the single step of *)
(* the call computes `ret` exactly as the Go code computes its result.    *)
(*                                                                         *)
(* Conventions                                                             *)
(*   - a Go pointer is a sequence of length <= 1: Nil is <<>>, Ptr(x) is  *)
(*     <<x>>;                                                              *)
(*   - a Go `error` is a string, "" meaning nil;                          *)
(*   - a *field.Error is a pointer to [Type, Field], Field being the      *)
(*     field path as a sequence of path elements;                         *)
(*   - a field path string is a sequence of tokens ("spec", "[0]", ...),  *)
(*     the empty string being <<>>; fieldpath.Parse turns it into         *)
(*     segments.                                                           *)
(***************************************************************************)
EXTENDS Integers, Sequences, FiniteSets, TLC

VARIABLES pc, fn, args, ret

vars == <<pc, fn, args, ret>>

----------------------------------------------------------------------------
(* Pointers *)

Nil == <<>>

Ptr(x) == <<x>>

Deref(p) == p[1]

----------------------------------------------------------------------------
(* pkg/validation/schema: the JSON type vocabulary *)

ArrayKnownJSONType == "array"

BooleanKnownJSONType == "boolean"

IntegerKnownJSONType == "integer"

NullKnownJSONType == "null"

NumberKnownJSONType == "number"

ObjectKnownJSONType == "object"

StringKnownJSONType == "string"

KnownJSONTypes ==
  { ArrayKnownJSONType, BooleanKnownJSONType, IntegerKnownJSONType,
    NullKnownJSONType, NumberKnownJSONType, ObjectKnownJSONType,
    StringKnownJSONType }

\* A plausible slip: the subtype rule written in the reverse direction.
IsEquivalentReversed(t, t2) ==
  t = t2 \/ (t = NumberKnownJSONType /\ t2 = IntegerKnownJSONType)

IsEquivalent(t, t2) ==
  t = t2 \/ (t = IntegerKnownJSONType /\ t2 = NumberKnownJSONType)

IsKnownJSONType(t) == t \in KnownJSONTypes

----------------------------------------------------------------------------
(* apiextensions.JSONSchemaProps, as far as the resolver reads it *)

Props(type, properties, required, additional, items, preserve) ==
  [ Type                   |-> type,
    Properties             |-> properties,
    Required               |-> required,
    AdditionalProperties   |-> additional,
    Items                  |-> items,
    XPreserveUnknownFields |-> preserve ]

NoProperties == <<>>

Leaf(type) == Props(type, NoProperties, <<>>, Nil, Nil, Nil)

JSONSchemaPropsOrBool(allows, schema) == [Allows |-> allows, Schema |-> schema]

JSONSchemaPropsOrArray(schema, schemas) == [Schema |-> schema, JSONSchemas |-> schemas]

\* hardcoded metadata schema, as CRDs usually do not contain it
metadataSchema ==
  Props(ObjectKnownJSONType,
        [ name        |-> Leaf(StringKnownJSONType),
          namespace   |-> Leaf(StringKnownJSONType),
          labels      |-> Props(ObjectKnownJSONType, NoProperties, <<>>,
                                Ptr(JSONSchemaPropsOrBool(FALSE, Ptr(Leaf(StringKnownJSONType)))),
                                Nil, Nil),
          annotations |-> Props(ObjectKnownJSONType, NoProperties, <<>>,
                                Ptr(JSONSchemaPropsOrBool(FALSE, Ptr(Leaf(StringKnownJSONType)))),
                                Nil, Nil),
          uid         |-> Leaf(StringKnownJSONType) ],
        <<>>,
        Ptr(JSONSchemaPropsOrBool(TRUE, Nil)),
        Nil, Nil)

----------------------------------------------------------------------------
(* crossplane-runtime fieldpath: segments and Parse *)

SegmentField == "Field"

SegmentIndex == "Index"

FieldSegment(name) == [Type |-> SegmentField, Field |-> name, Index |-> 0]

IndexSegment(i) == [Type |-> SegmentIndex, Field |-> "", Index |-> i]

\* The bracketed tokens of a path string and the index each one denotes.
IndexTokens == ("[0]" :> 0) @@ ("[1]" :> 1) @@ ("[2]" :> 2) @@ ("[3]" :> 3)

\* A token no path grammar accepts (an unterminated bracket).
BadToken == "["

ParseToken(tok) ==
  IF tok \in DOMAIN IndexTokens THEN IndexSegment(IndexTokens[tok])
  ELSE FieldSegment(tok)

Parse(fieldPath) ==
  IF \E i \in 1..Len(fieldPath) : fieldPath[i] = BadToken
  THEN [segments |-> <<>>, err |-> "unterminated '['"]
  ELSE [segments |-> [i \in 1..Len(fieldPath) |-> ParseToken(fieldPath[i])],
        err      |-> ""]

----------------------------------------------------------------------------
(* The field-path resolver *)

SegmentResult(current, required, err) ==
  [current |-> current, required |-> required, err |-> err]

BoolDeref(p, def) == IF p = Nil THEN def ELSE Deref(p)

\* The resolver of one segment that takes no account of the additional
\* properties of an object.
validateFieldPathSegmentDeclaredOnly(parent, segment) ==
  IF parent = Nil THEN SegmentResult(Nil, FALSE, "")
  ELSE LET p == Deref(parent) IN
    IF segment.Type = SegmentField
    THEN LET propType == IF p.Type = "" THEN ObjectKnownJSONType ELSE p.Type IN
         IF propType # ObjectKnownJSONType
         THEN SegmentResult(Nil, FALSE, "parent is not an object")
         ELSE IF segment.Field \notin DOMAIN p.Properties
              THEN IF BoolDeref(p.XPreserveUnknownFields, FALSE)
                   THEN SegmentResult(Nil, FALSE, "")
                   ELSE SegmentResult(Nil, FALSE, "field is not valid according to the schema")
              ELSE SegmentResult(Ptr(p.Properties[segment.Field]),
                                 \E i \in 1..Len(p.Required) : p.Required[i] = segment.Field,
                                 "")
    ELSE IF p.Type # ArrayKnownJSONType
         THEN SegmentResult(Nil, FALSE, "access by index of a non-array")
         ELSE IF p.Items = Nil
              THEN SegmentResult(Nil, FALSE, "no items found in array")
              ELSE IF Deref(p.Items).Schema # Nil
                   THEN SegmentResult(Deref(p.Items).Schema, FALSE, "")
                   ELSE IF Len(Deref(p.Items).JSONSchemas) < segment.Index
                        THEN SegmentResult(Nil, FALSE, "no schemas")
                        ELSE SegmentResult(Nil, FALSE, "")

validateFieldPathSegment(parent, segment) ==
  IF parent = Nil THEN SegmentResult(Nil, FALSE, "")
  ELSE LET p == Deref(parent) IN
    IF segment.Type = SegmentField
    THEN LET propType == IF p.Type = "" THEN ObjectKnownJSONType ELSE p.Type IN
         IF propType # ObjectKnownJSONType
         THEN SegmentResult(Nil, FALSE, "parent is not an object")
         ELSE IF segment.Field \notin DOMAIN p.Properties
              THEN IF BoolDeref(p.XPreserveUnknownFields, FALSE)
                   THEN SegmentResult(Nil, FALSE, "")
                   ELSE IF p.AdditionalProperties # Nil /\ Deref(p.AdditionalProperties).Allows
                        THEN SegmentResult(Deref(p.AdditionalProperties).Schema, FALSE, "")
                        ELSE SegmentResult(Nil, FALSE, "field is not valid according to the schema")
              ELSE SegmentResult(Ptr(p.Properties[segment.Field]),
                                 \E i \in 1..Len(p.Required) : p.Required[i] = segment.Field,
                                 "")
    ELSE IF p.Type # ArrayKnownJSONType
         THEN SegmentResult(Nil, FALSE, "access by index of a non-array")
         ELSE IF p.Items = Nil
              THEN SegmentResult(Nil, FALSE, "no items found in array")
              ELSE IF Deref(p.Items).Schema # Nil
                   THEN SegmentResult(Deref(p.Items).Schema, FALSE, "")
                   ELSE IF Len(Deref(p.Items).JSONSchemas) < segment.Index
                        THEN SegmentResult(Nil, FALSE, "no schemas")
                        ELSE SegmentResult(Nil, FALSE, "")

PathResult(fieldType, required, err) ==
  [fieldType |-> fieldType, required |-> required, err |-> err]

\* The loop without the final test of the type of the node reached.
RECURSIVE walkSegmentsAnyType(_, _, _, _)
walkSegmentsAnyType(current, segments, k, required) ==
  IF k > Len(segments)
  THEN PathResult(Deref(current).Type, required, "")
  ELSE LET r == validateFieldPathSegment(current, segments[k]) IN
       IF r.err # "" THEN PathResult("", FALSE, r.err)
       ELSE IF r.current = Nil THEN PathResult("", FALSE, "")
       ELSE walkSegmentsAnyType(r.current, segments, k + 1, r.required)

\* The loop of validateFieldPath over the remaining segments; `required`
\* is the named result the loop overwrites at every segment.
RECURSIVE walkSegments(_, _, _, _)
walkSegments(current, segments, k, required) ==
  IF k > Len(segments)
  THEN IF ~IsKnownJSONType(Deref(current).Type)
       THEN PathResult("", FALSE, "unsupported type")
       ELSE PathResult(Deref(current).Type, required, "")
  ELSE LET r == validateFieldPathSegment(current, segments[k]) IN
       IF r.err # "" THEN PathResult("", FALSE, r.err)
       ELSE IF r.current = Nil THEN PathResult("", FALSE, "")
       ELSE walkSegments(r.current, segments, k + 1, r.required)

validateFieldPath(schema, fieldPath) ==
  IF fieldPath = <<>> THEN PathResult("", FALSE, "")
  ELSE LET parsed == Parse(fieldPath) IN
    IF parsed.err # "" THEN PathResult("", FALSE, parsed.err)
    ELSE LET segs == parsed.segments
             meta == /\ Len(segs) > 0
                     /\ segs[1].Type = SegmentField
                     /\ segs[1].Field = "metadata"
         IN walkSegments(IF meta THEN Ptr(metadataSchema) ELSE schema,
                         IF meta THEN Tail(segs) ELSE segs,
                         1, FALSE)

----------------------------------------------------------------------------
(* apis/apiextensions/v1: transforms and their input/output types *)

TransformIOTypeString == "string"

TransformIOTypeBool == "bool"

TransformIOTypeInt == "int"

TransformIOTypeInt64 == "int64"

TransformIOTypeFloat64 == "float64"

TransformIOTypeObject == "object"

TransformIOTypeArray == "array"

TransformTypeMap == "map"

TransformTypeMatch == "match"

TransformTypeMath == "math"

TransformTypeString == "string"

TransformTypeConvert == "convert"

Transform(type, toType) == [Type |-> type, ToType |-> toType]

\* The seed of the running type; a type without a transform IO type
\* (including the unknown type "") gives the unknown IO type.
FromKnownJSONType(t) ==
  [ type |-> CASE t = StringKnownJSONType  -> TransformIOTypeString
               [] t = BooleanKnownJSONType -> TransformIOTypeBool
               [] t = IntegerKnownJSONType -> TransformIOTypeInt64
               [] t = NumberKnownJSONType  -> TransformIOTypeFloat64
               [] t = ObjectKnownJSONType  -> TransformIOTypeObject
               [] t = ArrayKnownJSONType   -> TransformIOTypeArray
               [] OTHER                    -> "",
    err  |-> "" ]

ToKnownJSONType(c) ==
  CASE c = TransformIOTypeString  -> StringKnownJSONType
    [] c = TransformIOTypeBool    -> BooleanKnownJSONType
    [] c = TransformIOTypeInt     -> IntegerKnownJSONType
    [] c = TransformIOTypeInt64   -> IntegerKnownJSONType
    [] c = TransformIOTypeFloat64 -> NumberKnownJSONType
    [] c = TransformIOTypeObject  -> ObjectKnownJSONType
    [] c = TransformIOTypeArray   -> ArrayKnownJSONType
    [] OTHER                      -> ""

\* int is treated as int64 by conversions
NormalizeInt(c) == IF c = TransformIOTypeInt THEN TransformIOTypeInt64 ELSE c

ConvertibleTypes ==
  { TransformIOTypeString, TransformIOTypeBool, TransformIOTypeInt64, TransformIOTypeFloat64 }

GetConversionFunc(toType, from) ==
  IF NormalizeInt(toType) = NormalizeInt(from) THEN ""
  ELSE IF NormalizeInt(toType) \in ConvertibleTypes /\ NormalizeInt(from) \in ConvertibleTypes
       THEN ""
       ELSE "conversion is not supported"

\* The error of Transform.IsValidInput, "" when the input type is accepted.
IsValidInput(t, fromType) ==
  CASE t.Type = TransformTypeMath ->
         IF fromType \notin {TransformIOTypeInt, TransformIOTypeInt64, TransformIOTypeFloat64}
         THEN "math transform can only be used with numeric types" ELSE ""
    [] t.Type = TransformTypeMap ->
         IF fromType # TransformIOTypeString
         THEN "map transform can only be used with string types" ELSE ""
    [] t.Type = TransformTypeMatch ->
         IF fromType # TransformIOTypeString
         THEN "match transform can only be used with string types" ELSE ""
    [] t.Type = TransformTypeString ->
         IF fromType # TransformIOTypeString
         THEN "string transform can only be used with string types" ELSE ""
    [] t.Type = TransformTypeConvert -> GetConversionFunc(t.ToType, fromType)
    [] OTHER -> "unknown transform type"

\* Transform.GetOutputType: out is Nil when the output type cannot be known.
GetOutputType(t) ==
  CASE t.Type \in {TransformTypeMap, TransformTypeMatch} -> [out |-> Nil, err |-> ""]
    [] t.Type = TransformTypeMath    -> [out |-> Ptr(TransformIOTypeFloat64), err |-> ""]
    [] t.Type = TransformTypeString  -> [out |-> Ptr(TransformIOTypeString), err |-> ""]
    [] t.Type = TransformTypeConvert -> [out |-> Ptr(t.ToType), err |-> ""]
    [] OTHER -> [out |-> Nil, err |-> "unable to get output type"]

----------------------------------------------------------------------------
(* k8s field.Error and field.Path *)

ErrorTypeInvalid == "FieldValueInvalid"

ErrorTypeRequired == "FieldValueRequired"

ErrorTypeInternal == "InternalError"

FieldError(type, path) == Ptr([Type |-> type, Field |-> path])

Invalid(path) == FieldError(ErrorTypeInvalid, path)

Required(path) == FieldError(ErrorTypeRequired, path)

InternalError(path) == FieldError(ErrorTypeInternal, path)

Index(i) == ToString(i)

\* Prefixes the field of a non-nil error with the given path.
WrapFieldError(err, path) ==
  IF err = Nil THEN Nil
  ELSE Ptr([Type |-> Deref(err).Type, Field |-> path \o Deref(err).Field])

----------------------------------------------------------------------------
(* Transform chain validation *)

LoopResult(returned, err, type) == [returned |-> returned, err |-> err, type |-> type]

\* The for loop of validateTransformsIOTypes from transform k (1-based) on,
\* the running type being transformedToType.
RECURSIVE transformsLoop(_, _, _)
transformsLoop(transforms, k, transformedToType) ==
  IF k > Len(transforms) THEN LoopResult(FALSE, Nil, transformedToType)
  ELSE IF IsValidInput(transforms[k], transformedToType) # ""
       THEN LoopResult(TRUE, Invalid(<<"transforms", Index(k - 1)>>), "")
       ELSE LET o == GetOutputType(transforms[k]) IN
            IF o.err # "" THEN LoopResult(TRUE, InternalError(<<"transforms", Index(k - 1)>>), "")
            ELSE IF o.out = Nil THEN LoopResult(TRUE, Nil, "")
            ELSE transformsLoop(transforms, k + 1, Deref(o.out))

\* The slip of reporting a missing transform like any other mismatch.
validateTransformsIOTypesNoRequired(transforms, fromType, toType) ==
  LET seed == FromKnownJSONType(fromType) IN
  IF seed.err # "" THEN InternalError(<<"transforms">>)
  ELSE LET r == transformsLoop(transforms, 1, seed.type) IN
       IF r.returned THEN r.err
       ELSE IF ~IsEquivalent(ToKnownJSONType(r.type), toType)
            THEN Invalid(<<"transforms">>)
            ELSE Nil

\* The slip of going on to the terminal comparison after a transform of
\* undecidable output, the running type left as it was.
RECURSIVE transformsLoopNoSkip(_, _, _)
transformsLoopNoSkip(transforms, k, transformedToType) ==
  IF k > Len(transforms) THEN LoopResult(FALSE, Nil, transformedToType)
  ELSE IF IsValidInput(transforms[k], transformedToType) # ""
       THEN LoopResult(TRUE, Invalid(<<"transforms", Index(k - 1)>>), "")
       ELSE LET o == GetOutputType(transforms[k]) IN
            IF o.err # "" THEN LoopResult(TRUE, InternalError(<<"transforms", Index(k - 1)>>), "")
            ELSE IF o.out = Nil THEN transformsLoopNoSkip(transforms, k + 1, transformedToType)
            ELSE transformsLoopNoSkip(transforms, k + 1, Deref(o.out))

validateTransformsIOTypesNoSkip(transforms, fromType, toType) ==
  LET seed == FromKnownJSONType(fromType) IN
  IF seed.err # "" THEN InternalError(<<"transforms">>)
  ELSE LET r == transformsLoopNoSkip(transforms, 1, seed.type) IN
       IF r.returned THEN r.err
       ELSE IF ~IsEquivalent(ToKnownJSONType(r.type), toType)
            THEN IF Len(transforms) = 0
                 THEN Required(<<"transforms">>)
                 ELSE Invalid(<<"transforms">>)
            ELSE Nil

validateTransformsIOTypes(transforms, fromType, toType) ==
  LET seed == FromKnownJSONType(fromType) IN
  IF seed.err # "" THEN InternalError(<<"transforms">>)
  ELSE LET r == transformsLoop(transforms, 1, seed.type) IN
       IF r.returned THEN r.err
       ELSE IF ~IsEquivalent(ToKnownJSONType(r.type), toType)
            THEN IF Len(transforms) = 0
                 THEN Required(<<"transforms">>)
                 ELSE Invalid(<<"transforms">>)
            ELSE Nil

(* The earlier validateTransformsIOTypes, over JSON type names *)

TransformOutputTypeAny == "any"

\* composition.ValidateTransformIOTypes: checks the input type of one
\* transform and gives its output type.
ValidateTransformIOTypes(transform, fromType) ==
  IF IsValidInput(transform, FromKnownJSONType(fromType).type) # ""
  THEN [type |-> "", err |-> IsValidInput(transform, FromKnownJSONType(fromType).type)]
  ELSE LET o == GetOutputType(transform) IN
       IF o.err # "" THEN [type |-> "", err |-> o.err]
       ELSE IF o.out = Nil THEN [type |-> TransformOutputTypeAny, err |-> ""]
       ELSE [type |-> ToKnownJSONType(Deref(o.out)), err |-> ""]

RECURSIVE transformsLoop_part005(_, _, _)
transformsLoop_part005(transforms, k, transformedToType) ==
  IF k > Len(transforms) THEN [type |-> transformedToType, err |-> ""]
  ELSE LET r == ValidateTransformIOTypes(transforms[k], transformedToType) IN
       IF r.err # "" THEN [type |-> "", err |-> r.err]
       ELSE transformsLoop_part005(transforms, k + 1, r.type)

\* Returns the Go error, "" when the chain is accepted.
validateTransformsIOTypes_part005(transforms, fromType, toType) ==
  LET r == transformsLoop_part005(transforms, 1, fromType) IN
  IF r.err # "" THEN r.err
  ELSE IF r.type = TransformOutputTypeAny THEN ""
  ELSE IF r.type = BooleanKnownJSONType /\ toType = NumberKnownJSONType THEN ""
  ELSE IF r.type # toType
       THEN "transformed output type and to field path have different types"
       ELSE ""

----------------------------------------------------------------------------
(* apis/apiextensions/v1: patches *)

PatchTypeFromCompositeFieldPath == "FromCompositeFieldPath"

PatchTypeToCompositeFieldPath == "ToCompositeFieldPath"

PatchTypeCombineFromComposite == "CombineFromComposite"

PatchTypeCombineToComposite == "CombineToComposite"

PatchTypeFromEnvironmentFieldPath == "FromEnvironmentFieldPath"

PatchTypeToEnvironmentFieldPath == "ToEnvironmentFieldPath"

PatchTypePatchSet == "PatchSet"

CombineStrategyString == "string"

Patch(type, fromFieldPath, toFieldPath, transforms, combine, patchSetName) ==
  [ Type          |-> type,
    FromFieldPath |-> fromFieldPath,
    ToFieldPath   |-> toFieldPath,
    Transforms    |-> transforms,
    Combine       |-> combine,
    PatchSetName  |-> patchSetName ]

Combine(variables, strategy, string) ==
  [Variables |-> variables, Strategy |-> strategy, String |-> string]

CombineVariable(fromFieldPath) == [FromFieldPath |-> fromFieldPath]

GetType(patch) ==
  IF patch.Type = "" THEN PatchTypeFromCompositeFieldPath ELSE patch.Type

GetFromFieldPath(patch) ==
  IF patch.FromFieldPath = Nil THEN <<>> ELSE Deref(patch.FromFieldPath)

GetToFieldPath(patch) ==
  IF patch.ToFieldPath = Nil THEN GetFromFieldPath(patch) ELSE Deref(patch.ToFieldPath)

----------------------------------------------------------------------------
(* Patch validation against the schemas *)

PatchResult(fromType, toType, err) == [fromType |-> fromType, toType |-> toType, err |-> err]

\* The slip of testing the required rule the wrong way round.
ValidateFromCompositeFieldPathPatchSwapped(patch, from, to) ==
  LET fromFieldPath == GetFromFieldPath(patch)
      toFieldPath   == GetToFieldPath(patch)
      f == validateFieldPath(from, fromFieldPath)
      t == validateFieldPath(to, toFieldPath)
  IN IF f.err # "" THEN PatchResult("", "", Invalid(<<"fromFieldPath">>))
     ELSE IF t.err # "" THEN PatchResult("", "", Invalid(<<"toFieldPath">>))
     ELSE IF f.required /\ ~t.required THEN PatchResult("", "", Invalid(<<"fromFieldPath">>))
     ELSE PatchResult(f.fieldType, t.fieldType, Nil)

ValidateFromCompositeFieldPathPatch(patch, from, to) ==
  LET fromFieldPath == GetFromFieldPath(patch)
      toFieldPath   == GetToFieldPath(patch)
      f == validateFieldPath(from, fromFieldPath)
      t == validateFieldPath(to, toFieldPath)
  IN IF f.err # "" THEN PatchResult("", "", Invalid(<<"fromFieldPath">>))
     ELSE IF t.err # "" THEN PatchResult("", "", Invalid(<<"toFieldPath">>))
     ELSE IF t.required /\ ~f.required THEN PatchResult("", "", Invalid(<<"fromFieldPath">>))
     ELSE PatchResult(f.fieldType, t.fieldType, Nil)

\* The errs list the loop over the combine variables builds, from variable
\* k (1-based) on.
RECURSIVE combineVariableErrs(_, _, _, _)
combineVariableErrs(variables, k, from, toRequired) ==
  IF k > Len(variables) THEN <<>>
  ELSE LET v == validateFieldPath(from, variables[k].FromFieldPath) IN
       ( IF v.err # "" THEN Invalid(<<"fromFieldPath">>)
         ELSE IF toRequired /\ ~v.required THEN Invalid(<<"combine">>)
         ELSE <<>> )
       \o combineVariableErrs(variables, k + 1, from, toRequired)

\* The strategy switch at the end of ValidateCombineFromCompositePathPatch.
CombineStrategyResult(combine, toType) ==
  IF combine.Strategy = CombineStrategyString
  THEN IF combine.String = Nil
       THEN PatchResult("", "", Required(<<"combine", "string">>))
       ELSE PatchResult(StringKnownJSONType, toType, Nil)
  ELSE PatchResult("", "", Invalid(<<"combine", "strategy">>))

\* The slip of asking only the first variable to be required.
ValidateCombineFromCompositePathPatchFirstOnly(patch, from, to) ==
  LET toFieldPath == GetToFieldPath(patch)
      t == validateFieldPath(to, toFieldPath)
      combine == Deref(patch.Combine)
  IN IF t.err # "" THEN PatchResult("", "", Invalid(<<"toFieldPath">>))
     ELSE IF Len(combineVariableErrs(SubSeq(combine.Variables, 1, IF Len(combine.Variables) = 0 THEN 0 ELSE 1),
                                      1, from, t.required)) > 0
          THEN PatchResult("", "", Invalid(<<"combine">>))
          ELSE CombineStrategyResult(combine, t.fieldType)

\* The slip of a default branch that accepts the strategy it does not know.
ValidateCombineFromCompositePathPatchAnyStrategy(patch, from, to) ==
  LET toFieldPath == GetToFieldPath(patch)
      t == validateFieldPath(to, toFieldPath)
      combine == Deref(patch.Combine)
  IN IF t.err # "" THEN PatchResult("", "", Invalid(<<"toFieldPath">>))
     ELSE IF Len(combineVariableErrs(combine.Variables, 1, from, t.required)) > 0
          THEN PatchResult("", "", Invalid(<<"combine">>))
          ELSE IF combine.Strategy = CombineStrategyString
               THEN CombineStrategyResult(combine, t.fieldType)
               ELSE PatchResult(StringKnownJSONType, t.fieldType, Nil)

ValidateCombineFromCompositePathPatch(patch, from, to) ==
  LET toFieldPath == GetToFieldPath(patch)
      t == validateFieldPath(to, toFieldPath)
      combine == Deref(patch.Combine)
  IN IF t.err # "" THEN PatchResult("", "", Invalid(<<"toFieldPath">>))
     ELSE IF Len(combineVariableErrs(combine.Variables, 1, from, t.required)) > 0
          THEN PatchResult("", "", Invalid(<<"combine">>))
          ELSE CombineStrategyResult(combine, t.fieldType)

----------------------------------------------------------------------------
(* Compositions *)

\* A template without connection details and readiness checks.
ComposedTemplate(name, base, patches) ==
  [ Name |-> name, Base |-> base, Patches |-> patches,
    ConnectionDetails |-> <<>>, ReadinessChecks |-> <<>> ]

\* The base object of a template: whether its raw JSON parses, and its GVK.
Base(valid, gvk) == [Valid |-> valid, GVK |-> gvk]

PatchSet(name, patches) == [Name |-> name, Patches |-> patches]

\* A composition without annotations and without functions.
Composition(compositeTypeRef, resources, patchSets) ==
  [ Annotations |-> Nil,
    ResourceVersion |-> "",
    Spec |-> [ CompositeTypeRef |-> compositeTypeRef,
               Resources        |-> resources,
               PatchSets        |-> patchSets,
               Functions        |-> <<>> ] ]

SetResourceVersion(obj, version) == [obj EXCEPT !.ResourceVersion = version]

FunctionTypeContainer == "Container"

\* A composition function: its type and its container configuration.
Function(type, container) == [Type |-> type, Container |-> container]

WithFunctions(comp, functions) == [comp EXCEPT !.Spec.Functions = functions]

ConnectionDetail(fromFieldPath) == [FromFieldPath |-> fromFieldPath]

ReadinessCheckTypeNone == "None"

ReadinessCheckTypeNonEmpty == "NonEmpty"

ReadinessCheckTypeMatchString == "MatchString"

ReadinessCheckTypeMatchInteger == "MatchInteger"

ReadinessCheck(type, fieldPath, matchString, matchInteger) ==
  [ Type |-> type, FieldPath |-> fieldPath,
    MatchString |-> matchString, MatchInteger |-> matchInteger ]

WithDetails(template, connectionDetails, readinessChecks) ==
  [template EXCEPT !.ConnectionDetails = connectionDetails,
                   !.ReadinessChecks = readinessChecks]

\* The slip of giving ToCompositeFieldPath the schemas in the order of
\* FromCompositeFieldPath.
PatchTypeSwitchNoSwap(patch, compositeSchema, resourceSchema) ==
  CASE GetType(patch) = PatchTypeFromCompositeFieldPath ->
         ValidateFromCompositeFieldPathPatch(patch, compositeSchema, resourceSchema)
    [] GetType(patch) = PatchTypeToCompositeFieldPath ->
         ValidateFromCompositeFieldPathPatch(patch, compositeSchema, resourceSchema)
    [] GetType(patch) = PatchTypeCombineFromComposite ->
         ValidateCombineFromCompositePathPatch(patch, compositeSchema, resourceSchema)
    [] GetType(patch) = PatchTypeCombineToComposite ->
         ValidateCombineFromCompositePathPatch(patch, resourceSchema, compositeSchema)
    [] OTHER -> PatchResult("", "", Nil)

\* The switch of validatePatchWithSchemas on the patch type.
PatchTypeSwitch(patch, compositeSchema, resourceSchema) ==
  CASE GetType(patch) = PatchTypeFromCompositeFieldPath ->
         ValidateFromCompositeFieldPathPatch(patch, compositeSchema, resourceSchema)
    [] GetType(patch) = PatchTypeToCompositeFieldPath ->
         ValidateFromCompositeFieldPathPatch(patch, resourceSchema, compositeSchema)
    [] GetType(patch) = PatchTypeCombineFromComposite ->
         ValidateCombineFromCompositePathPatch(patch, compositeSchema, resourceSchema)
    [] GetType(patch) = PatchTypeCombineToComposite ->
         ValidateCombineFromCompositePathPatch(patch, resourceSchema, compositeSchema)
    [] OTHER -> PatchResult("", "", Nil)

PatchPath(resourceNumber, patchNumber) ==
  <<"spec", "resources", Index(resourceNumber), "patches", Index(patchNumber)>>

\* resourceNumber and patchNumber count from 0, as in the code.
validatePatchWithSchemas(comp, resourceNumber, patchNumber, gvkToCRD) ==
  IF Len(comp.Spec.Resources) <= resourceNumber
  THEN InternalError(<<"spec", "resources", Index(resourceNumber)>>)
  ELSE IF Len(comp.Spec.Resources[resourceNumber + 1].Patches) <= patchNumber
  THEN InternalError(PatchPath(resourceNumber, patchNumber))
  ELSE LET resource == comp.Spec.Resources[resourceNumber + 1]
           patch    == resource.Patches[patchNumber + 1]
       IN IF ~resource.Base.Valid
          THEN Invalid(<<"spec", "resources", Index(resourceNumber), "base">>)
          ELSE IF comp.Spec.CompositeTypeRef \notin DOMAIN gvkToCRD
          THEN InternalError(<<"spec">>)
          ELSE IF resource.Base.GVK \notin DOMAIN gvkToCRD
          THEN InternalError(<<"spec">>)
          ELSE LET r == PatchTypeSwitch(patch,
                                        gvkToCRD[comp.Spec.CompositeTypeRef],
                                        gvkToCRD[resource.Base.GVK])
               IN IF r.err # Nil
                  THEN WrapFieldError(r.err, PatchPath(resourceNumber, patchNumber))
                  ELSE WrapFieldError(
                         validateTransformsIOTypes(patch.Transforms, r.fromType, r.toType),
                         PatchPath(resourceNumber, patchNumber))

----------------------------------------------------------------------------
(* Patch sets *)

\* The patches of the patch set of the given name; <<>> with found FALSE
\* when no patch set has that name (the last set of a name wins).
RECURSIVE lookupPatchSet(_, _, _)
lookupPatchSet(patchSets, k, name) ==
  IF k = 0 THEN [found |-> FALSE, patches |-> <<>>]
  ELSE IF patchSets[k].Name = name THEN [found |-> TRUE, patches |-> patchSets[k].Patches]
  ELSE lookupPatchSet(patchSets, k - 1, name)

\* The patches of one template with every patch set reference replaced,
\* in place, by the patches of the set it names.
RECURSIVE dereferencePatches(_, _, _)
dereferencePatches(patches, k, patchSets) ==
  IF k > Len(patches) THEN [patches |-> <<>>, err |-> ""]
  ELSE LET rest == dereferencePatches(patches, k + 1, patchSets) IN
       IF patches[k].Type # PatchTypePatchSet
       THEN [patches |-> <<patches[k]>> \o rest.patches, err |-> rest.err]
       ELSE IF patches[k].PatchSetName = Nil
            THEN [patches |-> <<>>, err |-> "PatchSetName is required"]
            ELSE LET ps == lookupPatchSet(patchSets, Len(patchSets), Deref(patches[k].PatchSetName)) IN
                 IF ~ps.found THEN [patches |-> <<>>, err |-> "undefined patch set"]
                 ELSE [patches |-> ps.patches \o rest.patches, err |-> rest.err]

\* The templates of spec.Resources from the i-th on, dereferenced.
RECURSIVE composedTemplatesFrom(_, _)
composedTemplatesFrom(spec, i) ==
  IF i > Len(spec.Resources) THEN [resources |-> <<>>, err |-> ""]
  ELSE LET d    == dereferencePatches(spec.Resources[i].Patches, 1, spec.PatchSets)
           rest == composedTemplatesFrom(spec, i + 1)
       IN IF d.err # "" THEN [resources |-> <<>>, err |-> d.err]
          ELSE IF rest.err # "" THEN rest
          ELSE [resources |->
                  <<ComposedTemplate(spec.Resources[i].Name, spec.Resources[i].Base, d.patches)>>
                  \o rest.resources,
                err |-> ""]

ComposedTemplates(spec) ==
  IF \E i \in 1..Len(spec.PatchSets) : \E j \in 1..Len(spec.PatchSets[i].Patches) :
       spec.PatchSets[i].Patches[j].Type = PatchTypePatchSet
  THEN [resources |-> <<>>, err |-> "cannot use patches within patches"]
  ELSE composedTemplatesFrom(spec, 1)

\* The errors of patches j.. (0-based) of dereferenced resource i, followed
\* by those of the resources after it: the two nested loops of
\* validatePatchesWithSchemas.
RECURSIVE patchErrs(_, _, _, _, _)
patchErrs(comp, resources, i, j, gvkToCRD) ==
  IF i >= Len(resources) THEN <<>>
  ELSE IF j >= Len(resources[i + 1].Patches) THEN patchErrs(comp, resources, i + 1, 0, gvkToCRD)
  ELSE validatePatchWithSchemas(comp, i, j, gvkToCRD)
       \o patchErrs(comp, resources, i, j + 1, gvkToCRD)

validatePatchesWithSchemas(comp, gvkToCRD) ==
  LET ct == ComposedTemplates(comp.Spec) IN
  IF ct.err # "" THEN Invalid(<<"spec", "resources">>)
  ELSE patchErrs(comp, ct.resources, 0, 0, gvkToCRD)

----------------------------------------------------------------------------
(* Logical checks *)

\* The counter of RejectMixedTemplates after the first k templates.
RECURSIVE named(_, _)
named(resources, k) ==
  IF k = 0 THEN 0
  ELSE named(resources, k - 1) + (IF resources[k].Name # Nil THEN 1 ELSE -1)

\* The slip of accepting only the all-named case.
RejectMixedTemplatesNamedOnly(comp) ==
  IF named(comp.Spec.Resources, Len(comp.Spec.Resources)) = Len(comp.Spec.Resources)
  THEN <<>>
  ELSE Invalid(<<"spec", "resources">>)

RejectMixedTemplates(comp) ==
  LET n == named(comp.Spec.Resources, Len(comp.Spec.Resources))
      l == Len(comp.Spec.Resources)
  IN IF n = l \/ n = -l THEN <<>> ELSE Invalid(<<"spec", "resources">>)

\* The loop of RejectDuplicateNames from template i (0-based) on.
RECURSIVE duplicateNames(_, _, _)
duplicateNames(resources, i, seen) ==
  IF i >= Len(resources) THEN <<>>
  ELSE LET tmpl == resources[i + 1] IN
       IF tmpl.Name = Nil THEN duplicateNames(resources, i + 1, seen)
       ELSE IF Deref(tmpl.Name) \in seen
       THEN Invalid(<<"spec", "resources", Index(i)>>) \o duplicateNames(resources, i + 1, seen)
       ELSE duplicateNames(resources, i + 1, seen \cup {Deref(tmpl.Name)})

\* The slip of remembering only the name of the previous named template.
RECURSIVE duplicateNamesOfPrevious(_, _, _)
duplicateNamesOfPrevious(resources, i, seen) ==
  IF i >= Len(resources) THEN <<>>
  ELSE LET tmpl == resources[i + 1] IN
       IF tmpl.Name = Nil THEN duplicateNamesOfPrevious(resources, i + 1, seen)
       ELSE IF Deref(tmpl.Name) \in seen
       THEN Invalid(<<"spec", "resources", Index(i)>>)
            \o duplicateNamesOfPrevious(resources, i + 1, seen)
       ELSE duplicateNamesOfPrevious(resources, i + 1, {Deref(tmpl.Name)})

RejectDuplicateNamesOfPrevious(comp) == duplicateNamesOfPrevious(comp.Spec.Resources, 0, {})

RejectDuplicateNames(comp) == duplicateNames(comp.Spec.Resources, 0, {})

\* The loop of RejectAnonymousTemplatesWithFunctions from template i on.
RECURSIVE anonymousTemplates(_, _)
anonymousTemplates(resources, i) ==
  IF i >= Len(resources) THEN <<>>
  ELSE (IF resources[i + 1].Name = Nil
        THEN Invalid(<<"spec", "resources", Index(i)>>) ELSE <<>>)
       \o anonymousTemplates(resources, i + 1)

RejectAnonymousTemplatesWithFunctions(comp) ==
  IF Len(comp.Spec.Functions) = 0 THEN <<>>
  ELSE anonymousTemplates(comp.Spec.Resources, 0)

\* Function.Validate: a Container function needs its container
\* configuration, and no other type is known.
FunctionValidate(function) ==
  IF function.Type = FunctionTypeContainer
  THEN IF function.Container = Nil
       THEN "functions of type: Container must specify container configuration"
       ELSE ""
  ELSE "unknown function type"

RECURSIVE functionErrs(_, _)
functionErrs(functions, i) ==
  IF i >= Len(functions) THEN <<>>
  ELSE (IF FunctionValidate(functions[i + 1]) # ""
        THEN Invalid(<<"spec", "functions", Index(i)>>) ELSE <<>>)
       \o functionErrs(functions, i + 1)

RejectFunctionsWithoutRequiredConfig(comp) == functionErrs(comp.Spec.Functions, 0)

\* Patch.Validate: the fields its type needs are set.
PatchValidate(patch) ==
  IF patch.Type \in { PatchTypeFromCompositeFieldPath, PatchTypeToCompositeFieldPath,
                      PatchTypeFromEnvironmentFieldPath, PatchTypeToEnvironmentFieldPath }
  THEN IF patch.FromFieldPath = Nil THEN "fromFieldPath is required" ELSE ""
  ELSE IF patch.Type = PatchTypePatchSet
  THEN IF patch.PatchSetName = Nil THEN "patchSetName is required" ELSE ""
  ELSE IF patch.Type \in {PatchTypeCombineFromComposite, PatchTypeCombineToComposite}
  THEN IF patch.Combine = Nil THEN "combine is required"
       ELSE IF patch.ToFieldPath = Nil THEN "toFieldPath is required" ELSE ""
  ELSE "unknown patch type"

PatchSetPatchPath(i, j) == <<"spec", "patchSets", Index(i), "patches", Index(j)>>

\* The two loops of RejectInvalidPatchSets from patch j of patch set i on.
RECURSIVE patchSetErrs(_, _, _)
patchSetErrs(patchSets, i, j) ==
  IF i >= Len(patchSets) THEN <<>>
  ELSE IF j >= Len(patchSets[i + 1].Patches) THEN patchSetErrs(patchSets, i + 1, 0)
  ELSE LET p == patchSets[i + 1].Patches[j + 1] IN
       (IF p.Type = PatchTypePatchSet THEN Invalid(PatchSetPatchPath(i, j)) ELSE <<>>)
       \o (IF PatchValidate(p) # "" THEN Invalid(PatchSetPatchPath(i, j)) ELSE <<>>)
       \o patchSetErrs(patchSets, i, j + 1)

RejectInvalidPatchSets(comp) == patchSetErrs(comp.Spec.PatchSets, 0, 0)

\* A validator of a chain, applied.
ValidatorFn(validator, comp) ==
  CASE validator = "RejectMixedTemplates" -> RejectMixedTemplates(comp)
    [] validator = "RejectDuplicateNames" -> RejectDuplicateNames(comp)
    [] validator = "RejectAnonymousTemplatesWithFunctions" ->
         RejectAnonymousTemplatesWithFunctions(comp)
    [] validator = "RejectFunctionsWithoutRequiredConfig" ->
         RejectFunctionsWithoutRequiredConfig(comp)
    [] validator = "RejectInvalidPatchSets" -> RejectInvalidPatchSets(comp)

\* The slip of leaving the patch set check out of the chain.
defaultValidationChainOfFour ==
  << "RejectMixedTemplates", "RejectDuplicateNames",
     "RejectAnonymousTemplatesWithFunctions", "RejectFunctionsWithoutRequiredConfig" >>

defaultValidationChain ==
  << "RejectMixedTemplates", "RejectDuplicateNames",
     "RejectAnonymousTemplatesWithFunctions", "RejectFunctionsWithoutRequiredConfig",
     "RejectInvalidPatchSets" >>

GetLogicalChecks == defaultValidationChain

\* Chain.Validate: the errors of every validator from the k-th on, in order.
RECURSIVE ChainValidate(_, _, _)
ChainValidate(chain, k, comp) ==
  IF k > Len(chain) THEN <<>>
  ELSE ValidatorFn(chain[k], comp) \o ChainValidate(chain, k + 1, comp)

----------------------------------------------------------------------------
(* Connection details, readiness checks and the whole validation *)

ResourceBasePath(i) == <<"spec", "resource", Index(i), "base">>

\* The errors of connection details j.. (0-based) of template i.
RECURSIVE connectionDetailErrs(_, _, _, _)
connectionDetailErrs(details, i, j, schema) ==
  IF j >= Len(details) THEN <<>>
  ELSE (IF details[j + 1].FromFieldPath = Nil THEN <<>>
        ELSE IF validateFieldPath(schema, Deref(details[j + 1].FromFieldPath)).err # ""
        THEN Invalid(ResourceBasePath(i) \o <<"connectionDetails", Index(j), "fromFieldPath">>)
        ELSE <<>>)
       \o connectionDetailErrs(details, i, j + 1, schema)

\* The loop of ValidateConnectionDetails from template i (0-based) on.
RECURSIVE connectionErrs(_, _, _)
connectionErrs(comp, i, gvkToCRD) ==
  IF i >= Len(comp.Spec.Resources) THEN <<>>
  ELSE LET resource == comp.Spec.Resources[i + 1] IN
       IF ~resource.Base.Valid THEN InternalError(ResourceBasePath(i))
       ELSE IF resource.Base.GVK \notin DOMAIN gvkToCRD THEN InternalError(ResourceBasePath(i))
       ELSE connectionDetailErrs(resource.ConnectionDetails, i, 0, gvkToCRD[resource.Base.GVK])
            \o connectionErrs(comp, i + 1, gvkToCRD)

ValidateConnectionDetails(comp, gvkToCRD) == connectionErrs(comp, 0, gvkToCRD)

\* ReadinessCheck.Validate: the fields its type needs are set.
ReadinessCheckValidate(r) ==
  IF r.Type = ReadinessCheckTypeNone THEN ""
  ELSE IF r.Type \notin { ReadinessCheckTypeNonEmpty, ReadinessCheckTypeMatchString,
                           ReadinessCheckTypeMatchInteger }
  THEN "unknown readiness check type"
  ELSE IF r.Type = ReadinessCheckTypeMatchString /\ r.MatchString = ""
  THEN "matchString is required"
  ELSE IF r.Type = ReadinessCheckTypeMatchInteger /\ r.MatchInteger = 0
  THEN "matchInteger is required"
  ELSE IF r.FieldPath = <<>> THEN "fieldPath is required"
  ELSE ""

ReadinessCheckPath(i, j) == ResourceBasePath(i) \o <<"readinessCheck", Index(j)>>

\* The errors of one readiness check.
readinessCheckErr(r, i, j, schema) ==
  IF ReadinessCheckValidate(r) # "" THEN Invalid(ReadinessCheckPath(i, j))
  ELSE IF r.Type = ReadinessCheckTypeNone THEN <<>>
  ELSE LET matchType == IF r.Type = ReadinessCheckTypeMatchString THEN "string"
                        ELSE IF r.Type = ReadinessCheckTypeMatchInteger THEN "integer"
                        ELSE ""
           t == validateFieldPath(schema, r.FieldPath)
       IN IF t.err # "" THEN Invalid(ReadinessCheckPath(i, j) \o <<"fieldPath">>)
          ELSE IF matchType # "" /\ matchType # t.fieldType
          THEN Invalid(ReadinessCheckPath(i, j) \o <<"fieldPath">>)
          ELSE <<>>

\* The loop over the readiness checks that ends at the first error.
RECURSIVE readinessCheckErrsUntilFirst(_, _, _, _)
readinessCheckErrsUntilFirst(checks, i, j, schema) ==
  IF j >= Len(checks) THEN <<>>
  ELSE IF readinessCheckErr(checks[j + 1], i, j, schema) # <<>>
  THEN readinessCheckErr(checks[j + 1], i, j, schema)
  ELSE readinessCheckErrsUntilFirst(checks, i, j + 1, schema)

RECURSIVE readinessCheckErrs(_, _, _, _)
readinessCheckErrs(checks, i, j, schema) ==
  IF j >= Len(checks) THEN <<>>
  ELSE readinessCheckErr(checks[j + 1], i, j, schema)
       \o readinessCheckErrs(checks, i, j + 1, schema)

\* The loop of ValidateReadinessCheck from template i (0-based) on.
RECURSIVE readinessErrs(_, _, _)
readinessErrs(comp, i, gvkToCRD) ==
  IF i >= Len(comp.Spec.Resources) THEN <<>>
  ELSE LET resource == comp.Spec.Resources[i + 1] IN
       IF ~resource.Base.Valid THEN InternalError(ResourceBasePath(i))
       ELSE IF resource.Base.GVK \notin DOMAIN gvkToCRD THEN InternalError(ResourceBasePath(i))
       ELSE readinessCheckErrs(resource.ReadinessChecks, i, 0, gvkToCRD[resource.Base.GVK])
            \o readinessErrs(comp, i + 1, gvkToCRD)

ValidateReadinessCheck(comp, gvkToCRD) == readinessErrs(comp, 0, gvkToCRD)

\* What a call of ValidateComposition returns, with the validations it
\* ran on the way.
Validated(errs, ran) == [errs |-> errs, ran |-> ran]

\* ValidateComposition after the logical checks, given the errors of the
\* three validations against the schemas: the first of them that reports
\* an error ends the call, and the rendering, whose outcome is the
\* reconciler's, comes last.
schemaResult(comp, gvkToCRDs, rendered, patches, connErrs, readErrs) ==
  IF Len(patches) > 0 THEN Validated(patches, <<"ValidatePatches">>)
  ELSE IF Len(connErrs) > 0
  THEN Validated(connErrs, <<"ValidatePatches", "ValidateConnectionDetails">>)
  ELSE IF Len(readErrs) > 0
  THEN Validated(readErrs, << "ValidatePatches", "ValidateConnectionDetails",
                              "ValidateReadinessCheck" >>)
  ELSE IF Len(comp.Spec.Functions) > 0
  THEN Validated(<<>>, << "ValidatePatches", "ValidateConnectionDetails",
                          "ValidateReadinessCheck" >>)
  ELSE IF comp.Spec.CompositeTypeRef \notin DOMAIN gvkToCRDs
  THEN Validated(Invalid(<<"spec", "compositeTypeRef">>),
                 << "ValidatePatches", "ValidateConnectionDetails",
                    "ValidateReadinessCheck" >>)
  ELSE Validated(IF rendered THEN <<>> ELSE InternalError(<<"spec">>),
                 << "ValidatePatches", "ValidateConnectionDetails",
                    "ValidateReadinessCheck", "Reconcile" >>)

schemaChecks(comp, gvkToCRDs, rendered) ==
  schemaResult(comp, gvkToCRDs, rendered,
               validatePatchesWithSchemas(comp, gvkToCRDs),
               ValidateConnectionDetails(comp, gvkToCRDs),
               ValidateReadinessCheck(comp, gvkToCRDs))

\* The slip of going on to the schemas after a logical error.
logicalResultNoReturn(logical, rest) ==
  Validated(logical \o rest.errs, <<"GetLogicalChecks">> \o rest.ran)

\* The result of the call, given the errors of the logical checks and
\* what the rest of the call returns when it is reached.
logicalResult(logical, rest) ==
  IF logical # <<>> THEN Validated(logical, <<"GetLogicalChecks">>)
  ELSE Validated(rest.errs, <<"GetLogicalChecks">> \o rest.ran)

\* Create of the client with a fallback reader: the resource version of
\* the object is emptied before the primary client, which keeps the
\* object as it is given, stores it.
ClientWithFallbackReaderCreate(obj) == SetResourceVersion(obj, "")

\* The composition after the call: it is given to the client once the
\* call gets to the resources the rendering needs.
createdComposition(comp, result) ==
  IF \E k \in 1..Len(result.ran) : result.ran[k] = "Reconcile"
  THEN ClientWithFallbackReaderCreate(comp)
  ELSE comp

ValidateComposition(comp, gvkToCRDs, rendered) ==
  logicalResult(ChainValidate(GetLogicalChecks, 1, comp),
                schemaChecks(comp, gvkToCRDs, rendered))

----------------------------------------------------------------------------
(* Validation mode *)

CompositionValidationModeAnnotation == "crossplane.io/composition-validation-mode"

CompositionValidationModeLoose == "loose"

CompositionValidationModeStrict == "strict"

DefaultCompositionValidationMode == CompositionValidationModeLoose

WithAnnotations(comp, annotations) == [comp EXCEPT !.Annotations = annotations]

\* The mode and the error of getCompositionValidationMode.  A nil map of
\* annotations is Nil, any other is a pointer to a function from keys to
\* values.
getCompositionValidationMode(comp) ==
  IF comp.Annotations = Nil
  THEN [mode |-> DefaultCompositionValidationMode, err |-> ""]
  ELSE IF CompositionValidationModeAnnotation \notin DOMAIN Deref(comp.Annotations)
  THEN [mode |-> DefaultCompositionValidationMode, err |-> ""]
  ELSE LET mode == Deref(comp.Annotations)[CompositionValidationModeAnnotation] IN
       IF mode \in {CompositionValidationModeStrict, CompositionValidationModeLoose}
       THEN [mode |-> mode, err |-> ""]
       ELSE [mode |-> "", err |-> "invalid composition validation mode"]

----------------------------------------------------------------------------
(* The admission webhook: the CRDs a composition needs and ValidateCreate *)

\* The errors of the lookup of a CRD; the reason is empty for no error.
NoLookupError == [reason |-> "", gvk |-> ""]

NewNotFound(gvk) == [reason |-> "NotFound", gvk |-> gvk]

ListError(gvk) == [reason |-> "InternalError", gvk |-> gvk]

IsNotFound(err) == err.reason = "NotFound"

\* The cluster the client lists CRDs from: the names of the CRDs listed
\* for each GVK, and the GVKs for which the list call fails.
Cluster(items, failing) == [items |-> items, failing |-> failing]

getCRDForGVK(cluster, gvk) ==
  IF gvk \in cluster.failing THEN [crd |-> Nil, err |-> ListError(gvk)]
  ELSE IF Len(cluster.items[gvk]) # 1 THEN [crd |-> Nil, err |-> NewNotFound(gvk)]
  ELSE [crd |-> Ptr(cluster.items[gvk][1]), err |-> NoLookupError]

NeededCRDs(crds, errs) == [crds |-> crds, errs |-> errs]

\* The loop of getNeededCRDs over the resource templates from the i-th
\* (0-based) on; a CRD that is found is stored under the condition that
\* the CRD of the composite type was found.
RECURSIVE resourceCRDs(_, _, _, _, _, _)
resourceCRDs(resources, cluster, i, compositeCRD, neededCrds, resultErrs) ==
  IF i >= Len(resources) THEN NeededCRDs(neededCrds, resultErrs)
  ELSE LET gvk   == resources[i + 1].Base.GVK
           found == getCRDForGVK(cluster, gvk)
       IN IF gvk \in DOMAIN neededCrds
          THEN resourceCRDs(resources, cluster, i + 1, compositeCRD, neededCrds, resultErrs)
          ELSE IF IsNotFound(found.err)
          THEN resourceCRDs(resources, cluster, i + 1, compositeCRD, neededCrds,
                            Append(resultErrs, found.err))
          ELSE IF found.err # NoLookupError
          THEN NeededCRDs(<<>>, <<found.err>>)
          ELSE IF compositeCRD # Nil
          THEN resourceCRDs(resources, cluster, i + 1, compositeCRD,
                            neededCrds @@ (gvk :> Deref(found.crd)), resultErrs)
          ELSE resourceCRDs(resources, cluster, i + 1, compositeCRD, neededCrds, resultErrs)

\* getNeededCRDs after the lookup of the CRD of the composite type.
compositeCRDs(comp, cluster, found) ==
  IF IsNotFound(found.err)
  THEN resourceCRDs(comp.Spec.Resources, cluster, 0, Nil, <<>>, <<found.err>>)
  ELSE IF found.err # NoLookupError
  THEN NeededCRDs(<<>>, <<found.err>>)
  ELSE resourceCRDs(comp.Spec.Resources, cluster, 0, found.crd,
                    (comp.Spec.CompositeTypeRef :> Deref(found.crd)), <<>>)

\* The CRDs found, by GVK, as the names of the CRDs, and the errors.
getNeededCRDs(comp, cluster) ==
  compositeCRDs(comp, cluster, getCRDForGVK(cluster, comp.Spec.CompositeTypeRef))

\* What ValidateCreate returns: the message is empty for nil.
AdmissionError(msg, cause) == [msg |-> msg, cause |-> cause]

Admitted == AdmissionError("", <<>>)

LoopOutcome(returned, err, looseModeSkip) ==
  [returned |-> returned, err |-> err, looseModeSkip |-> looseModeSkip]

\* The loop over the lookup errors that lets strict mode through.
RECURSIVE crdErrsLoopNeverStrict(_, _, _, _)
crdErrsLoopNeverStrict(errs, k, validationMode, looseModeSkip) ==
  IF k > Len(errs) THEN LoopOutcome(FALSE, Admitted, looseModeSkip)
  ELSE IF ~IsNotFound(errs[k])
  THEN LoopOutcome(TRUE,
                   AdmissionError("there were some errors while getting the needed CRDs", errs),
                   looseModeSkip)
  ELSE crdErrsLoopNeverStrict(errs, k + 1, validationMode,
                              looseModeSkip \/ validationMode = CompositionValidationModeLoose)

\* The loop of ValidateCreate over the errors of getNeededCRDs, from the
\* k-th on.
RECURSIVE crdErrsLoop(_, _, _, _)
crdErrsLoop(errs, k, validationMode, looseModeSkip) ==
  IF k > Len(errs) THEN LoopOutcome(FALSE, Admitted, looseModeSkip)
  ELSE IF ~IsNotFound(errs[k])
  THEN LoopOutcome(TRUE,
                   AdmissionError("there were some errors while getting the needed CRDs", errs),
                   looseModeSkip)
  ELSE IF validationMode = CompositionValidationModeStrict
  THEN LoopOutcome(TRUE,
                   AdmissionError("cannot get needed CRDs and strict mode is enabled", <<errs[k]>>),
                   looseModeSkip)
  ELSE crdErrsLoop(errs, k + 1, validationMode,
                   looseModeSkip \/ validationMode = CompositionValidationModeLoose)

\* The end of ValidateCreate: the patches against the CRDs found, then
\* the rendering, whose outcome is the reconciler's.
patchesAndRendering(patches, rendered) ==
  IF Len(patches) # 0
  THEN AdmissionError("there were some errors while validating the patches", patches)
  ELSE IF ~rendered THEN AdmissionError("cannot render resources", <<>>)
  ELSE Admitted

\* ValidateCreate after the loop over the lookup errors: the logical
\* checks come before the return of loose mode on a missing CRD.
afterLookup(validationMode, loop, logical, patches, rendered) ==
  IF loop.returned THEN loop.err
  ELSE IF logical # <<>> THEN AdmissionError("invalid composition", logical)
  ELSE IF loop.looseModeSkip /\ validationMode = CompositionValidationModeLoose
  THEN Admitted
  ELSE patchesAndRendering(patches, rendered)

\* The same of the other ValidateCreate: the return of loose mode on a
\* missing CRD comes before ValidateComposition and its logical checks.
afterLookup_custom_validator(validationMode, loop, logical, patches, rendered) ==
  IF loop.returned THEN loop.err
  ELSE IF loop.looseModeSkip /\ validationMode = CompositionValidationModeLoose
  THEN Admitted
  ELSE IF logical # <<>> THEN AdmissionError("invalid composition", logical)
  ELSE patchesAndRendering(patches, rendered)

withNeededCRDs(comp, validationMode, needed, rendered) ==
  afterLookup(validationMode,
              crdErrsLoop(needed.errs, 1, validationMode, FALSE),
              ChainValidate(GetLogicalChecks, 1, comp),
              validatePatchesWithSchemas(comp, [g \in DOMAIN needed.crds |-> Ptr(needed.crds[g])]),
              rendered)

withNeededCRDs_custom_validator(comp, validationMode, needed, rendered) ==
  afterLookup_custom_validator(validationMode,
              crdErrsLoop(needed.errs, 1, validationMode, FALSE),
              ChainValidate(GetLogicalChecks, 1, comp),
              validatePatchesWithSchemas(comp, [g \in DOMAIN needed.crds |-> Ptr(needed.crds[g])]),
              rendered)

withValidationMode(comp, cluster, mode, rendered) ==
  IF mode.err # "" THEN AdmissionError("cannot get validation mode", <<>>)
  ELSE withNeededCRDs(comp, mode.mode, getNeededCRDs(comp, cluster), rendered)

withValidationMode_custom_validator(comp, cluster, mode, rendered) ==
  IF mode.err # "" THEN AdmissionError("cannot get validation mode", <<>>)
  ELSE withNeededCRDs_custom_validator(comp, mode.mode, getNeededCRDs(comp, cluster), rendered)

ValidateCreate(comp, cluster, rendered) ==
  withValidationMode(comp, cluster, getCompositionValidationMode(comp), rendered)

ValidateCreate_custom_validator(comp, cluster, rendered) ==
  withValidationMode_custom_validator(comp, cluster, getCompositionValidationMode(comp), rendered)

----------------------------------------------------------------------------
(* Bounds *)

\* Longest transform chain given to validateTransformsIOTypes directly.
MaxTransforms == 2

\* Longest transform list of a patch.
MaxPatchTransforms == 2

\* Most variables of a combine patch.
MaxVariables == 2

\* Most patches of a resource template or of a patch set.
MaxPatches == 2

\* Most resource templates of a composition.
MaxResources == 1

\* Most segments of a field path given to validateFieldPath directly.
MaxSegments == 3

\* Most resource templates given to a logical check directly.
MaxTemplates == 3

\* Most resource templates of a composition given to the chain of checks.
MaxChainTemplates == 2

\* Most functions of a composition.
MaxFunctions == 1

\* Most patch sets given to RejectInvalidPatchSets directly.
MaxPatchSets == 2

\* Most patches of a patch set given to RejectInvalidPatchSets directly.
MaxPatchSetPatches == 1

\* Most connection details of a resource template.
MaxConnectionDetails == 1

\* Most readiness checks of a resource template.
MaxReadinessChecks == 1

\* The readiness checks of the template given to ValidateReadinessCheck.
MaxChecks == 2

\* The resource templates of the compositions given to the webhook.
MaxAdmittedTemplates == 2

SeqsUpTo(S, n) == UNION { [1..k -> S] : k \in 0..n }

----------------------------------------------------------------------------
(* The schemas and compositions the calls are made with *)

CompositeGVK == "Composite"

ManagedGVK == "Managed"

\* A composite resource schema with a field of every scalar type, required
\* and optional, an object that preserves unknown fields and a field
\* without a type.
WideSchema ==
  Props(ObjectKnownJSONType,
        [ spec |->
            Props(ObjectKnownJSONType,
                  [ strReq  |-> Leaf(StringKnownJSONType),
                    strOpt  |-> Leaf(StringKnownJSONType),
                    intReq  |-> Leaf(IntegerKnownJSONType),
                    intOpt  |-> Leaf(IntegerKnownJSONType),
                    numReq  |-> Leaf(NumberKnownJSONType),
                    numOpt  |-> Leaf(NumberKnownJSONType),
                    boolReq |-> Leaf(BooleanKnownJSONType),
                    free    |-> Props(ObjectKnownJSONType, NoProperties, <<>>, Nil, Nil, Ptr(TRUE)) ],
                  <<"strReq", "intReq", "numReq", "boolReq">>,
                  Nil, Nil, Nil) ],
        <<"spec">>, Nil, Nil, Nil)

\* A managed resource schema whose fields of the same names have other
\* types and other required lists.
NarrowSchema ==
  Props(ObjectKnownJSONType,
        [ spec |->
            Props(ObjectKnownJSONType,
                  [ strReq |-> Leaf(IntegerKnownJSONType),
                    strOpt |-> Leaf(StringKnownJSONType),
                    intOpt |-> Leaf(IntegerKnownJSONType),
                    numOpt |-> Leaf(NumberKnownJSONType) ],
                  <<"strOpt", "intOpt">>,
                  Nil, Nil, Nil) ],
        <<>>, Nil, Nil, Nil)

\* The two item schemas of the array described position by position.
TupleSchemas == <<Leaf(StringKnownJSONType), Leaf(IntegerKnownJSONType)>>

\* An object node without properties of its own that lists `ghost` as
\* required, with the given policies for the fields it does not declare.
Undeclaring(additional, preserve) ==
  Props(ObjectKnownJSONType, NoProperties, <<"ghost">>, additional, Nil, preserve)

\* A schema with objects of every policy for undeclared fields, arrays of
\* every kind of item definition, and a required field without a type.
OpenSchema ==
  Props(ObjectKnownJSONType,
        [ spec |->
            Props(ObjectKnownJSONType,
                  [ open    |-> Undeclaring(Ptr(JSONSchemaPropsOrBool(TRUE, Nil)), Nil),
                    typed   |-> Undeclaring(Ptr(JSONSchemaPropsOrBool(TRUE, Ptr(Leaf(StringKnownJSONType)))), Nil),
                    kept    |-> Undeclaring(Ptr(JSONSchemaPropsOrBool(TRUE, Ptr(Leaf(StringKnownJSONType)))), Ptr(TRUE)),
                    closed  |-> Undeclaring(Nil, Ptr(FALSE)),
                    list    |-> Props(ArrayKnownJSONType, NoProperties, <<>>, Nil,
                                      Ptr(JSONSchemaPropsOrArray(Ptr(Leaf(StringKnownJSONType)), <<>>)), Nil),
                    bare    |-> Props(ArrayKnownJSONType, NoProperties, <<>>, Nil, Nil, Nil),
                    tuple   |-> Props(ArrayKnownJSONType, NoProperties, <<>>, Nil,
                                      Ptr(JSONSchemaPropsOrArray(Nil, TupleSchemas)), Nil),
                    hollow  |-> Props(ArrayKnownJSONType, NoProperties, <<>>, Nil,
                                      Ptr(JSONSchemaPropsOrArray(Nil, <<>>)), Nil),
                    untyped |-> Leaf("") ],
                  <<"list", "untyped">>,
                  Nil, Nil, Nil) ],
        <<"spec">>, Nil, Nil, Nil)

\* The CRDs at hand, by name.
CRDs == ("wide" :> WideSchema) @@ ("narrow" :> NarrowSchema) @@ ("open" :> OpenSchema)

\* The names of the CRDs of the composite and of the managed type.
SchemaPairs ==
  { <<"wide", "wide">>, <<"wide", "narrow">>, <<"narrow", "wide">> }

BothCRDs(pair) == (CompositeGVK :> pair[1]) @@ (ManagedGVK :> pair[2])

\* The gvkToCRD map the validators are given, for the CRD found for each GVK.
GVKToCRD(crds) == [g \in DOMAIN crds |-> Ptr(CRDs[crds[g]])]

\* Field path strings, as token sequences.
FieldPaths ==
  { <<>>,
    <<"spec", "strReq">>, <<"spec", "strOpt">>,
    <<"spec", "intReq">>, <<"spec", "intOpt">>,
    <<"spec", "numReq">>, <<"spec", "numOpt">>,
    <<"spec", "boolReq">>,
    <<"spec", "free", "x">>,
    <<"spec", "missing">> }

\* The tokens the field paths given to validateFieldPath are made of.
PathTokens ==
  { "metadata", "name", "uid", "labels", "annotations", "app",
    "spec", "strReq", "strOpt", "intOpt", "free", "[0]" }

\* The tokens of the field paths into the open schema.
OpenPathTokens ==
  { "spec", "open", "typed", "kept", "closed", "ghost", "list", "bare",
    "tuple", "hollow", "untyped", "[0]", "[1]", "[2]", "[3]" }

TokensFor(schema) == IF schema = "open" THEN OpenPathTokens ELSE PathTokens

\* The schema validateFieldPath is given: one of the CRDs, or none.
SchemaNames == DOMAIN CRDs \cup {"none"}

SchemaNamed(name) == IF name = "none" THEN Nil ELSE Ptr(CRDs[name])

Transforms ==
  { Transform(TransformTypeMath, ""),
    Transform(TransformTypeMap, ""),
    Transform(TransformTypeString, ""),
    Transform(TransformTypeConvert, TransformIOTypeString),
    Transform(TransformTypeConvert, TransformIOTypeInt64),
    Transform(TransformTypeConvert, TransformIOTypeFloat64),
    Transform(TransformTypeConvert, TransformIOTypeBool),
    Transform("doesnotexist", "") }

PatchTransforms ==
  { Transform(TransformTypeMath, ""),
    Transform(TransformTypeMap, ""),
    Transform(TransformTypeString, ""),
    Transform(TransformTypeConvert, TransformIOTypeString),
    Transform(TransformTypeConvert, TransformIOTypeInt64) }

\* The types a CRD schema can give a field, and "" for a field whose type
\* could not be resolved.
ResolvedTypes ==
  { "", StringKnownJSONType, IntegerKnownJSONType, NumberKnownJSONType,
    BooleanKnownJSONType, ObjectKnownJSONType, ArrayKnownJSONType }

FieldPathPatchTypes ==
  { "", PatchTypeFromCompositeFieldPath, PatchTypeToCompositeFieldPath,
    PatchTypeFromEnvironmentFieldPath, PatchTypePatchSet }

FieldPathPatches ==
  { Patch(type, from, to, transforms, Nil, Nil) :
      type \in FieldPathPatchTypes,
      from \in {Ptr(p) : p \in FieldPaths},
      to \in {Nil} \cup {Ptr(p) : p \in FieldPaths \ {<<>>}},
      transforms \in SeqsUpTo(PatchTransforms, MaxPatchTransforms) }

CombinePaths ==
  { <<"spec", "strReq">>, <<"spec", "strOpt">>, <<"spec", "intReq">>, <<"spec", "missing">> }

CombineTransforms ==
  { <<>>, <<Transform(TransformTypeString, "")>>, <<Transform(TransformTypeMath, "")>> }

CombinePatches ==
  { Patch(type, Nil, Ptr(to), transforms,
          Ptr(Combine(variables, strategy, string)), Nil) :
      type \in {PatchTypeCombineFromComposite, PatchTypeCombineToComposite},
      to \in CombinePaths,
      transforms \in CombineTransforms,
      variables \in SeqsUpTo({CombineVariable(p) : p \in CombinePaths}, MaxVariables),
      strategy \in {CombineStrategyString, "other"},
      string \in {Nil, Ptr("%s-%s")} }

SinglePatchComposition(patch, base) ==
  Composition(CompositeGVK, <<ComposedTemplate(Ptr("test"), base, <<patch>>)>>, <<>>)

\* A well-typed patch, an ill-typed one, and a reference to a patch set.
WellTypedPatch ==
  Patch(PatchTypeFromCompositeFieldPath, Ptr(<<"spec", "strReq">>), Ptr(<<"spec", "strOpt">>),
        <<>>, Nil, Nil)

IllTypedPatch ==
  Patch(PatchTypeFromCompositeFieldPath, Ptr(<<"spec", "intReq">>), Ptr(<<"spec", "strOpt">>),
        <<>>, Nil, Nil)

PatchSetReference(name) == Patch(PatchTypePatchSet, Nil, Nil, <<>>, Nil, Ptr(name))

TemplatePatches == { WellTypedPatch, IllTypedPatch, PatchSetReference("common") }

Compositions ==
  { Composition(CompositeGVK, resources, patchSets) :
      resources \in SeqsUpTo({ ComposedTemplate(Ptr("test"), Base(TRUE, ManagedGVK), patches) :
                                 patches \in SeqsUpTo(TemplatePatches, MaxPatches) },
                             MaxResources),
      patchSets \in { <<>> } \cup
                    { <<PatchSet("common", patches)>> :
                        patches \in SeqsUpTo(TemplatePatches, MaxPatches) } }

\* Templates that differ in their names only.
TemplateNames == { Nil, Ptr("foo"), Ptr("bar") }

NamedTemplates(n) ==
  SeqsUpTo({ ComposedTemplate(name, Base(TRUE, ManagedGVK), <<>>) : name \in TemplateNames }, n)

\* A patch without the field its type needs.
ShapelessPatch == Patch(PatchTypeFromCompositeFieldPath, Nil, Nil, <<>>, Nil, Nil)

PatchSetNames == { "common", "extra" }

LogicalPatchSets ==
  { PatchSet(name, patches) :
      name \in PatchSetNames,
      patches \in SeqsUpTo({WellTypedPatch, ShapelessPatch, PatchSetReference("common")},
                           MaxPatchSetPatches) }

\* A function with its configuration, one without, one of no known type.
Functions ==
  { Function(FunctionTypeContainer, Ptr("image")),
    Function(FunctionTypeContainer, Nil),
    Function("Webhook", Nil) }

\* No patch set, a valid one, one that nests a reference, and two valid
\* ones of the same name.
ChainPatchSets ==
  { <<>>,
    <<PatchSet("common", <<WellTypedPatch>>)>>,
    <<PatchSet("common", <<PatchSetReference("common")>>)>>,
    <<PatchSet("common", <<WellTypedPatch>>), PatchSet("common", <<WellTypedPatch>>)>> }

\* A connection detail without a path, one whose path resolves in both
\* schemas and one whose path resolves in neither.
ConnectionDetails ==
  { ConnectionDetail(Nil),
    ConnectionDetail(Ptr(<<"spec", "strOpt">>)),
    ConnectionDetail(Ptr(<<"spec", "missing">>)) }

\* A readiness check on a string field, one on an integer field and one
\* on a field that is not in the schemas, all to match a string.
ReadinessChecks ==
  { ReadinessCheck(ReadinessCheckTypeMatchString, <<"spec", "strOpt">>, "ok", 0),
    ReadinessCheck(ReadinessCheckTypeMatchString, <<"spec", "intOpt">>, "ok", 0),
    ReadinessCheck(ReadinessCheckTypeMatchString, <<"spec", "missing">>, "ok", 0) }

\* Readiness checks of every type: to match a string or an integer on a
\* string, an integer, a number, an undeclared and a free-form field, and
\* one without the string to match.
MatchChecks ==
  { ReadinessCheck(type, fieldPath, "ok", 1) :
      type \in {ReadinessCheckTypeMatchString, ReadinessCheckTypeMatchInteger},
      fieldPath \in { <<"spec", "strOpt">>, <<"spec", "intOpt">>, <<"spec", "numOpt">>,
                      <<"spec", "missing">>, <<"spec", "free", "x">> } }
  \cup { ReadinessCheck(ReadinessCheckTypeNonEmpty, <<"spec", "missing">>, "", 0),
         ReadinessCheck(ReadinessCheckTypeNone, <<>>, "", 0),
         ReadinessCheck(ReadinessCheckTypeMatchString, <<"spec", "strOpt">>, "", 0) }

\* One template, named or not, with up to one patch.
DetailedTemplates ==
  { WithDetails(ComposedTemplate(name, Base(TRUE, ManagedGVK), patches),
                connectionDetails, readinessChecks) :
      name \in {Nil, Ptr("test")},
      patches \in {<<>>, <<WellTypedPatch>>, <<IllTypedPatch>>},
      connectionDetails \in SeqsUpTo(ConnectionDetails, MaxConnectionDetails),
      readinessChecks \in SeqsUpTo(ReadinessChecks, MaxReadinessChecks) }

\* The compositions given to ValidateComposition: one template, with or
\* without a function, with or without a patch set that nests a reference.
DetailedCompositions ==
  { WithFunctions(Composition(CompositeGVK, <<template>>, patchSets), functions) :
      template \in DetailedTemplates,
      functions \in { <<>>, <<Function(FunctionTypeContainer, Ptr("image"))>>,
                      <<Function(FunctionTypeContainer, Nil)>> },
      patchSets \in { <<>>, <<PatchSet("common", <<PatchSetReference("common")>>)>> } }

\* The GVK of a second managed type.
OtherGVK == "Other"

\* The names of the CRDs the cluster lists for each GVK: every CRD there,
\* none there, one of the three not there, one listed twice.
ClusterItems ==
  { (CompositeGVK :> c) @@ (ManagedGVK :> m) @@ (OtherGVK :> o) :
      c \in {<<>>, <<"wide">>}, m \in {<<>>, <<"narrow">>}, o \in {<<>>, <<"narrow">>} }
  \cup { (CompositeGVK :> <<"wide">>) @@ (ManagedGVK :> <<"narrow">>)
           @@ (OtherGVK :> <<"narrow", "wide">>) }

\* The clusters: the list calls work, or the one for a GVK fails.
Clusters ==
  { Cluster(items, {}) : items \in ClusterItems }
  \cup { Cluster((CompositeGVK :> <<"wide">>) @@ (ManagedGVK :> <<"narrow">>)
                  @@ (OtherGVK :> <<"narrow">>), {gvk}) :
           gvk \in {CompositeGVK, OtherGVK} }

\* The cluster with the CRDs in the place of their names.
ClusterOf(cluster) ==
  Cluster([g \in DOMAIN cluster.items |->
             [k \in DOMAIN cluster.items[g] |-> CRDs[cluster.items[g][k]]]],
          cluster.failing)

\* Templates of either managed type, named or not, with an ill-typed patch
\* or none.
AdmittedTemplates ==
  { ComposedTemplate(name, Base(TRUE, gvk), patches) :
      name \in {Nil, Ptr("foo")},
      gvk \in {ManagedGVK, OtherGVK},
      patches \in {<<>>, <<IllTypedPatch>>} }

\* The annotations of the compositions given to the webhook.
AdmittedAnnotations ==
  { Nil } \cup { Ptr([key \in {CompositionValidationModeAnnotation} |-> value]) :
                   value \in {"strict", "loose", "off"} }

AdmittedCompositions ==
  { WithAnnotations(Composition(CompositeGVK, resources, <<>>), annotations) :
      resources \in SeqsUpTo(AdmittedTemplates, MaxAdmittedTemplates),
      annotations \in AdmittedAnnotations }

\* The resource version of a composition not stored yet and of a stored one.
ResourceVersions == {"", "42"}

\* Values of the validation mode annotation.
AnnotationValues == { "", "strict", "loose", "Strict", "loose ", "off" }

\* No map of annotations, an empty one, one without the validation mode,
\* and one with each value of it, alone or next to another annotation.
AnnotationMaps ==
  { Nil, Ptr([key \in {} |-> ""]), Ptr([key \in {"team"} |-> "storage"]) }
  \cup { Ptr([key \in {CompositionValidationModeAnnotation} |-> value]) :
           value \in AnnotationValues }
  \cup { Ptr([key \in {CompositionValidationModeAnnotation, "team"} |->
               IF key = "team" THEN "storage" ELSE value]) :
           value \in AnnotationValues }

----------------------------------------------------------------------------
(* The state machine: one call, from its arguments to its result *)

NoResult == "none"

Call(f, a) == fn = f /\ args = a

IsEquivalentCalls ==
  \E t \in KnownJSONTypes \cup {""}, t2 \in KnownJSONTypes \cup {""} :
    Call("IsEquivalent", [t |-> t, t2 |-> t2])

TransformsCalls(f, T) ==
  \E transforms \in SeqsUpTo(T, MaxTransforms), fromType \in ResolvedTypes, toType \in ResolvedTypes :
    Call(f, [transforms |-> transforms, fromType |-> fromType, toType |-> toType])

FieldPathCalls ==
  \E schema \in SchemaNames : \E fieldPath \in SeqsUpTo(TokensFor(schema), MaxSegments) :
    Call("validateFieldPath", [schema |-> schema, fieldPath |-> fieldPath])

PatchCall(comp, resourceNumber, patchNumber, crds) ==
  Call("validatePatchWithSchemas",
       [ comp |-> comp, resourceNumber |-> resourceNumber,
         patchNumber |-> patchNumber, crds |-> crds ])

PatchCalls ==
  \/ \E patch \in FieldPathPatches \cup CombinePatches, pair \in SchemaPairs :
       PatchCall(SinglePatchComposition(patch, Base(TRUE, ManagedGVK)), 0, 0, BothCRDs(pair))
  \* the calls that end before the patch is looked at
  \/ \E base \in {Base(TRUE, ManagedGVK), Base(FALSE, "")},
        resourceNumber \in 0..1,
        patchNumber \in 0..1,
        crds \in { BothCRDs(<<"wide", "narrow">>),
                   (CompositeGVK :> "wide"),
                   (ManagedGVK :> "narrow") } :
       PatchCall(SinglePatchComposition(WellTypedPatch, base), resourceNumber, patchNumber, crds)

PatchesCalls ==
  \E comp \in Compositions,
     crds \in { BothCRDs(<<"wide", "narrow">>), (CompositeGVK :> "wide") } :
    Call("validatePatchesWithSchemas", [comp |-> comp, crds |-> crds])

TemplatesCalls(f) ==
  \E resources \in NamedTemplates(MaxTemplates) :
    Call(f, [comp |-> Composition(CompositeGVK, resources, <<>>)])

PatchSetsCalls ==
  \E patchSets \in SeqsUpTo(LogicalPatchSets, MaxPatchSets) :
    Call("RejectInvalidPatchSets", [comp |-> Composition(CompositeGVK, <<>>, patchSets)])

LogicalChecksCalls ==
  \E resources \in NamedTemplates(MaxChainTemplates),
     functions \in SeqsUpTo(Functions, MaxFunctions),
     patchSets \in ChainPatchSets :
    Call("GetLogicalChecks.Validate",
         [comp |-> WithFunctions(Composition(CompositeGVK, resources, patchSets), functions)])

CompositionCalls ==
  \E comp \in DetailedCompositions,
     resourceVersion \in ResourceVersions,
     crds \in { BothCRDs(<<"wide", "narrow">>), (ManagedGVK :> "narrow") },
     rendered \in BOOLEAN :
    Call("ValidateComposition",
         [ comp |-> SetResourceVersion(comp, resourceVersion),
           crds |-> crds, rendered |-> rendered ])

ReadinessCalls ==
  \E checks \in SeqsUpTo(MatchChecks, MaxChecks),
     crds \in { (ManagedGVK :> "wide"), (ManagedGVK :> "narrow"), (CompositeGVK :> "wide") } :
    Call("ValidateReadinessCheck",
         [ comp |-> Composition(CompositeGVK,
                                <<WithDetails(ComposedTemplate(Nil, Base(TRUE, ManagedGVK), <<>>),
                                              <<>>, checks)>>,
                                <<>>),
           crds |-> crds ])

NeededCRDsCalls ==
  \E resources \in SeqsUpTo(AdmittedTemplates, MaxAdmittedTemplates), cluster \in Clusters :
    Call("getNeededCRDs",
         [comp |-> Composition(CompositeGVK, resources, <<>>), cluster |-> cluster])

AdmissionCalls(f) ==
  \E comp \in AdmittedCompositions, cluster \in Clusters, rendered \in BOOLEAN :
    Call(f, [comp |-> comp, cluster |-> cluster, rendered |-> rendered])

ValidationModeCalls ==
  \E annotations \in AnnotationMaps :
    Call("getCompositionValidationMode",
         [comp |-> WithAnnotations(Composition(CompositeGVK, <<>>, <<>>), annotations)])

Init ==
  /\ pc = "ready"
  /\ ret = NoResult
  /\ \/ IsEquivalentCalls
     \/ FieldPathCalls
     \/ TransformsCalls("validateTransformsIOTypes", Transforms)
     \/ TransformsCalls("validateTransformsIOTypes_part005", Transforms)
     \/ PatchCalls
     \/ PatchesCalls
     \/ TemplatesCalls("RejectMixedTemplates")
     \/ TemplatesCalls("RejectDuplicateNames")
     \/ PatchSetsCalls
     \/ LogicalChecksCalls
     \/ CompositionCalls
     \/ ValidationModeCalls
     \/ ReadinessCalls
     \/ NeededCRDsCalls
     \/ AdmissionCalls("ValidateCreate")
     \/ AdmissionCalls("ValidateCreate_custom_validator")

Return(f, value) ==
  /\ pc = "ready"
  /\ fn = f
  /\ pc' = "done"
  /\ ret' = value
  /\ UNCHANGED <<fn, args>>

CallIsEquivalent ==
  /\ fn = "IsEquivalent"
  /\ Return("IsEquivalent", IsEquivalent(args.t, args.t2))

CallValidateFieldPath ==
  /\ fn = "validateFieldPath"
  /\ Return("validateFieldPath", validateFieldPath(SchemaNamed(args.schema), args.fieldPath))

CallValidateTransformsIOTypes ==
  /\ fn = "validateTransformsIOTypes"
  /\ Return("validateTransformsIOTypes",
            validateTransformsIOTypes(args.transforms, args.fromType, args.toType))

CallValidateTransformsIOTypes_part005 ==
  /\ fn = "validateTransformsIOTypes_part005"
  /\ Return("validateTransformsIOTypes_part005",
            validateTransformsIOTypes_part005(args.transforms, args.fromType, args.toType))

CallValidatePatchWithSchemas ==
  /\ fn = "validatePatchWithSchemas"
  /\ Return("validatePatchWithSchemas",
            validatePatchWithSchemas(args.comp, args.resourceNumber, args.patchNumber,
                                     GVKToCRD(args.crds)))

CallValidatePatchesWithSchemas ==
  /\ fn = "validatePatchesWithSchemas"
  /\ Return("validatePatchesWithSchemas",
            validatePatchesWithSchemas(args.comp, GVKToCRD(args.crds)))

CallRejectMixedTemplates ==
  /\ fn = "RejectMixedTemplates"
  /\ Return("RejectMixedTemplates", RejectMixedTemplates(args.comp))

CallRejectDuplicateNames ==
  /\ fn = "RejectDuplicateNames"
  /\ Return("RejectDuplicateNames", RejectDuplicateNames(args.comp))

CallRejectInvalidPatchSets ==
  /\ fn = "RejectInvalidPatchSets"
  /\ Return("RejectInvalidPatchSets", RejectInvalidPatchSets(args.comp))

CallLogicalChecks ==
  /\ fn = "GetLogicalChecks.Validate"
  /\ Return("GetLogicalChecks.Validate", ChainValidate(GetLogicalChecks, 1, args.comp))

\* The return of a call that was given its composition by reference.
ReturnWithComposition(f, result) ==
  /\ pc = "ready"
  /\ fn = f
  /\ pc' = "done"
  /\ ret' = result
  /\ args' = [args EXCEPT !.comp = createdComposition(args.comp, result)]
  /\ UNCHANGED fn

CallValidateComposition ==
  /\ fn = "ValidateComposition"
  /\ ReturnWithComposition("ValidateComposition",
                           ValidateComposition(args.comp, GVKToCRD(args.crds), args.rendered))

CallGetCompositionValidationMode ==
  /\ fn = "getCompositionValidationMode"
  /\ Return("getCompositionValidationMode", getCompositionValidationMode(args.comp))

CallValidateReadinessCheck ==
  /\ fn = "ValidateReadinessCheck"
  /\ Return("ValidateReadinessCheck",
            ValidateReadinessCheck(args.comp, GVKToCRD(args.crds)))

CallGetNeededCRDs ==
  /\ fn = "getNeededCRDs"
  /\ Return("getNeededCRDs", getNeededCRDs(args.comp, ClusterOf(args.cluster)))

CallValidateCreate ==
  /\ fn = "ValidateCreate"
  /\ Return("ValidateCreate",
            ValidateCreate(args.comp, ClusterOf(args.cluster), args.rendered))

CallValidateCreate_custom_validator ==
  /\ fn = "ValidateCreate_custom_validator"
  /\ Return("ValidateCreate_custom_validator",
            ValidateCreate_custom_validator(args.comp, ClusterOf(args.cluster), args.rendered))

Next ==
  \/ CallIsEquivalent
  \/ CallValidateFieldPath
  \/ CallValidateTransformsIOTypes
  \/ CallValidateTransformsIOTypes_part005
  \/ CallValidatePatchWithSchemas
  \/ CallValidatePatchesWithSchemas
  \/ CallRejectMixedTemplates
  \/ CallRejectDuplicateNames
  \/ CallRejectInvalidPatchSets
  \/ CallLogicalChecks
  \/ CallValidateComposition
  \/ CallGetCompositionValidationMode
  \/ CallValidateReadinessCheck
  \/ CallGetNeededCRDs
  \/ CallValidateCreate
  \/ CallValidateCreate_custom_validator

Spec == Init /\ [][Next]_vars

Done(f) == pc = "done" /\ fn = f

----------------------------------------------------------------------------
(* Properties of the type vocabulary and of patch validation *)

\* The equivalence table: every type with itself, and integer with number.
EquivalentPairs ==
  { <<t, t>> : t \in KnownJSONTypes }
  \cup { <<IntegerKnownJSONType, NumberKnownJSONType>> }

\* A validatePatchWithSchemas call that has returned after reaching the
\* switch on the type of the first patch of the first template.
PatchValidated ==
  /\ Done("validatePatchWithSchemas")
  /\ args.resourceNumber = 0
  /\ args.patchNumber = 0
  /\ args.comp.Spec.Resources[1].Base.Valid
  /\ args.comp.Spec.CompositeTypeRef \in DOMAIN args.crds
  /\ args.comp.Spec.Resources[1].Base.GVK \in DOMAIN args.crds

ThePatch == args.comp.Spec.Resources[1].Patches[1]

ThePatchPath == PatchPath(0, 0)

CompositeSchema == GVKToCRD(args.crds)[args.comp.Spec.CompositeTypeRef]

ResourceSchema == GVKToCRD(args.crds)[args.comp.Spec.Resources[1].Base.GVK]

\* What the resolver gives for the two paths of a FromCompositeFieldPath
\* patch.
SourceInfo == validateFieldPath(CompositeSchema, GetFromFieldPath(ThePatch))

DestinationInfo == validateFieldPath(ResourceSchema, GetToFieldPath(ThePatch))

FromPatchValidated ==
  PatchValidated /\ GetType(ThePatch) = PatchTypeFromCompositeFieldPath

\* C1: for every pair (a, b) of the seven known JSON types,
\* IsEquivalent(a, b) is true exactly when a = b or a is integer and b is
\* number; the relation is not symmetric.
C1_IsEquivalentTable ==
  ( /\ Done("IsEquivalent")
    /\ args.t \in KnownJSONTypes
    /\ args.t2 \in KnownJSONTypes )
  => ret = (<<args.t, args.t2>> \in EquivalentPairs)

C1_NumberIsNotInteger ==
  /\ Done("IsEquivalent")
  /\ args.t = NumberKnownJSONType
  /\ args.t2 = IntegerKnownJSONType
  /\ ret = FALSE

\* C2: a FromCompositeFieldPath patch whose destination path resolves as
\* required and whose source path resolves as not required is rejected,
\* whatever its transforms are.
C2_RequiredRuleNeverBypassed ==
  ( /\ FromPatchValidated
    /\ SourceInfo.err = ""
    /\ DestinationInfo.err = ""
    /\ DestinationInfo.required
    /\ ~SourceInfo.required )
  => ret # Nil

C2_OptionalToRequiredWithTransform ==
  /\ FromPatchValidated
  /\ SourceInfo.err = ""
  /\ DestinationInfo.err = ""
  /\ DestinationInfo.required
  /\ ~SourceInfo.required
  /\ SourceInfo.fieldType = StringKnownJSONType
  /\ DestinationInfo.fieldType = StringKnownJSONType
  /\ ThePatch.Transforms = <<Transform(TransformTypeString, "")>>
  /\ ret = Invalid(ThePatchPath \o <<"fromFieldPath">>)

\* The JSON types a transform IO type stands for.
TransformableTypes == ResolvedTypes \ {""}

\* C3: a FromCompositeFieldPath patch without transforms is accepted when
\* source and destination resolve to the same type, and is rejected with a
\* required error at its transforms field when the two types are not
\* equivalent; the chain validator alone does the same on an empty chain.
C3_NoTransforms ==
  /\ ( /\ FromPatchValidated
       /\ ThePatch.Transforms = <<>>
       /\ SourceInfo.err = ""
       /\ DestinationInfo.err = ""
       /\ ~(DestinationInfo.required /\ ~SourceInfo.required)
       /\ SourceInfo.fieldType \in TransformableTypes
       /\ DestinationInfo.fieldType \in TransformableTypes )
     => /\ SourceInfo.fieldType = DestinationInfo.fieldType => ret = Nil
        /\ <<SourceInfo.fieldType, DestinationInfo.fieldType>> \notin EquivalentPairs
             => ret = Required(ThePatchPath \o <<"transforms">>)
  /\ ( /\ Done("validateTransformsIOTypes")
       /\ args.transforms = <<>>
       /\ args.fromType \in TransformableTypes
       /\ args.toType \in TransformableTypes )
     => /\ args.fromType = args.toType => ret = Nil
        /\ <<args.fromType, args.toType>> \notin EquivalentPairs
             => ret = Required(<<"transforms">>)

C3_IntegerToStringNeedsTransform ==
  /\ FromPatchValidated
  /\ ThePatch.Transforms = <<>>
  /\ SourceInfo.err = ""
  /\ DestinationInfo.err = ""
  /\ SourceInfo.fieldType = IntegerKnownJSONType
  /\ DestinationInfo.fieldType = StringKnownJSONType
  /\ ret = Required(ThePatchPath \o <<"transforms">>)

\* The type an accepted chain of the earlier validator ends with.
FinalType_part005 == transformsLoop_part005(args.transforms, 1, args.fromType)

\* C4: when no transform of the chain has an undecidable output, the chain
\* (the empty one included) is accepted exactly when its final type is the
\* destination type or the final type is integer and the destination is
\* number; boolean to number and number to integer are rejected.
C4_TerminalComparison_part005 ==
  ( /\ Done("validateTransformsIOTypes_part005")
    /\ args.fromType \in TransformableTypes
    /\ args.toType \in TransformableTypes
    /\ FinalType_part005.err = ""
    /\ FinalType_part005.type # TransformOutputTypeAny )
  => ( ret = "" <=> <<FinalType_part005.type, args.toType>> \in EquivalentPairs )

\* The transform at position k (from 1) is the first of the chain whose
\* output type cannot be known, and it and every transform before it
\* accept the type they are given.
FirstUndecidableAt(transforms, fromType, k) ==
  /\ \A i \in 1..(k - 1) :
       GetOutputType(transforms[i]).err = "" /\ GetOutputType(transforms[i]).out # Nil
  /\ GetOutputType(transforms[k]) = [out |-> Nil, err |-> ""]
  /\ \A i \in 1..k :
       IsValidInput(transforms[i],
                    IF i = 1 THEN FromKnownJSONType(fromType).type
                    ELSE Deref(GetOutputType(transforms[i - 1]).out)) = ""

\* C5: a chain with a transform of undecidable output at position k, every
\* transform up to k accepting its input, is accepted whatever follows
\* position k and whatever the destination type is.
C5_UndecidableOutputSkipsTheRest ==
  ( /\ Done("validateTransformsIOTypes")
    /\ \E k \in 1..Len(args.transforms) :
         FirstUndecidableAt(args.transforms, args.fromType, k) )
  => ret = Nil

C5_MapThenMathToBoolean ==
  /\ Done("validateTransformsIOTypes")
  /\ args.transforms = <<Transform(TransformTypeMap, ""), Transform(TransformTypeMath, "")>>
  /\ args.fromType = StringKnownJSONType
  /\ args.toType = BooleanKnownJSONType
  /\ FirstUndecidableAt(args.transforms, args.fromType, 1)
  /\ ret = Nil

CombinePatchValidated ==
  /\ PatchValidated
  /\ GetType(ThePatch) \in {PatchTypeCombineFromComposite, PatchTypeCombineToComposite}

\* The schemas a combine patch reads its variables from and writes to.
CombineSourceSchema ==
  IF GetType(ThePatch) = PatchTypeCombineFromComposite THEN CompositeSchema ELSE ResourceSchema

CombineDestinationSchema ==
  IF GetType(ThePatch) = PatchTypeCombineFromComposite THEN ResourceSchema ELSE CompositeSchema

CombineDestinationInfo == validateFieldPath(CombineDestinationSchema, GetToFieldPath(ThePatch))

CombineVariables == Deref(ThePatch.Combine).Variables

CombineVariableInfo(i) == validateFieldPath(CombineSourceSchema, CombineVariables[i].FromFieldPath)

\* C6: a combine patch whose destination resolves as required is rejected
\* with an invalid error at its combine field when some variable resolves
\* as not required; when every variable resolves as required no error is
\* raised at the combine field.
C6_CombineRequiredRule ==
  ( /\ CombinePatchValidated
    /\ CombineDestinationInfo.err = ""
    /\ CombineDestinationInfo.required )
  => /\ ( \E i \in 1..Len(CombineVariables) :
            CombineVariableInfo(i).err = "" /\ ~CombineVariableInfo(i).required )
        => ret = Invalid(ThePatchPath \o <<"combine">>)
     /\ ( \A i \in 1..Len(CombineVariables) :
            CombineVariableInfo(i).err = "" /\ CombineVariableInfo(i).required )
        => ( ret = Nil \/ Deref(ret).Field # ThePatchPath \o <<"combine">> )

C6_SecondVariableOptional ==
  /\ CombinePatchValidated
  /\ CombineDestinationInfo.err = ""
  /\ CombineDestinationInfo.required
  /\ Len(CombineVariables) = 2
  /\ CombineVariableInfo(1).err = "" /\ CombineVariableInfo(1).required
  /\ CombineVariableInfo(2).err = "" /\ ~CombineVariableInfo(2).required
  /\ Deref(ThePatch.Combine).Strategy = CombineStrategyString
  /\ ret = Invalid(ThePatchPath \o <<"combine">>)

\* C7: a combine patch whose strategy is not the string strategy is
\* rejected, for all variables, destination and schemas.
C7_OtherStrategyRejected ==
  ( /\ CombinePatchValidated
    /\ Deref(ThePatch.Combine).Strategy # CombineStrategyString )
  => ret # Nil

C7_OtherStrategyOnValidPaths ==
  /\ CombinePatchValidated
  /\ Deref(ThePatch.Combine).Strategy # CombineStrategyString
  /\ CombineDestinationInfo.err = ""
  /\ Len(CombineVariables) > 0
  /\ \A i \in 1..Len(CombineVariables) :
       /\ CombineVariableInfo(i).err = ""
       /\ CombineDestinationInfo.required => CombineVariableInfo(i).required
  /\ ret = Invalid(ThePatchPath \o <<"combine", "strategy">>)

\* The composition of the call with its patch turned into a
\* FromCompositeFieldPath patch, and the schemas of the call with the
\* composite and the composed one exchanged.
AsFromCompositeFieldPath ==
  [args.comp EXCEPT !.Spec.Resources[1].Patches[1].Type = PatchTypeFromCompositeFieldPath]

ExchangedSchemas ==
  (args.comp.Spec.CompositeTypeRef :> ResourceSchema)
  @@ (args.comp.Spec.Resources[1].Base.GVK :> CompositeSchema)

ToPatchValidated ==
  PatchValidated /\ GetType(ThePatch) = PatchTypeToCompositeFieldPath

\* C8: a ToCompositeFieldPath patch validated with composite schema C and
\* composed schema R has the outcome of the same paths and transforms
\* validated as a FromCompositeFieldPath patch with composite schema R and
\* composed schema C.
C8_ToIsFromWithSchemasExchanged ==
  ToPatchValidated
  => ret = validatePatchWithSchemas(AsFromCompositeFieldPath, 0, 0, ExchangedSchemas)

C8_ToPatchRejectedOnlyWhenExchanged ==
  /\ ToPatchValidated
  /\ CompositeSchema # ResourceSchema
  /\ ret # Nil
  /\ validatePatchWithSchemas(AsFromCompositeFieldPath, 0, 0, GVKToCRD(args.crds)) = Nil

\* C9: with both schemas at hand, a patch of a kind static validation does
\* not support (read from the environment, or a reference to a patch set)
\* gives no error, for any field paths and transforms.
C9_UnsupportedKindsAccepted ==
  ( /\ PatchValidated
    /\ GetType(ThePatch) \in {PatchTypeFromEnvironmentFieldPath, PatchTypePatchSet} )
  => ret = Nil

\* The composition of the call with every patch set reference replaced by
\* the patches of the set it names.
Inlined ==
  [args.comp EXCEPT !.Spec.Resources = ComposedTemplates(args.comp.Spec).resources]

\* C10: the patches of a referenced patch set are type-checked as if they
\* were written at the place of the reference: a composition gets the
\* errors of the composition with its patch sets written inline.
C10_PatchSetsCheckedAsInline ==
  ( /\ Done("validatePatchesWithSchemas")
    /\ ComposedTemplates(args.comp.Spec).err = "" )
  => ret = validatePatchesWithSchemas(Inlined, GVKToCRD(args.crds))

----------------------------------------------------------------------------
(* Properties of the field-path resolver *)

\* The schema the segments after a leading metadata are resolved against,
\* and those segments.
ResolvedAgainst(schema, segments) ==
  IF Len(segments) > 0 /\ segments[1] = FieldSegment("metadata")
  THEN Ptr(metadataSchema) ELSE schema

ResolvedSegments(segments) ==
  IF Len(segments) > 0 /\ segments[1] = FieldSegment("metadata")
  THEN Tail(segments) ELSE segments

\* Every segment from the k-th on is a declared property listed in the
\* required list of its parent.
RECURSIVE EverySegmentRequired(_, _, _)
EverySegmentRequired(node, segments, k) ==
  \/ k > Len(segments)
  \/ /\ segments[k].Type = SegmentField
     /\ segments[k].Field \in DOMAIN node.Properties
     /\ \E i \in 1..Len(node.Required) : node.Required[i] = segments[k].Field
     /\ EverySegmentRequired(node.Properties[segments[k].Field], segments, k + 1)

\* C11: path resolution gives required = true only if every field segment
\* along the path is listed in the required list of its parent.
C11_RequiredOnlyIfEveryAncestorIs ==
  ( /\ Done("validateFieldPath")
    /\ args.schema # "none"
    /\ ret.err = ""
    /\ ret.required )
  => EverySegmentRequired(
       Deref(ResolvedAgainst(SchemaNamed(args.schema), Parse(args.fieldPath).segments)),
       ResolvedSegments(Parse(args.fieldPath).segments), 1)

\* The paths into the metadata of an object that have a string value.
MetadataStringPaths ==
  { <<"metadata", f>> : f \in {"name", "namespace", "uid"} }
  \cup { <<"metadata", m, key>> :
           m \in {"labels", "annotations"}, key \in PathTokens \ DOMAIN IndexTokens }

\* C12: whatever root schema is given, metadata.name, metadata.namespace
\* and metadata.uid resolve to string, and so do metadata.labels.K and
\* metadata.annotations.K, without error, for every key K.
C12_MetadataPathsAreStrings ==
  ( /\ Done("validateFieldPath")
    /\ args.fieldPath \in MetadataStringPaths )
  => ret.err = "" /\ ret.fieldType = StringKnownJSONType

\* C13: a patch without transforms whose source or destination resolves to
\* the unknown type is not rejected for its types, and neither is the
\* empty chain given an unknown source or destination type.
C13_UnknownTypeIsNotAMismatch ==
  /\ ( /\ FromPatchValidated
       /\ ThePatch.Transforms = <<>>
       /\ SourceInfo.err = ""
       /\ DestinationInfo.err = ""
       /\ ~(DestinationInfo.required /\ ~SourceInfo.required)
       /\ "" \in {SourceInfo.fieldType, DestinationInfo.fieldType} )
     => ret = Nil
  /\ ( /\ Done("validateTransformsIOTypes")
       /\ args.transforms = <<>>
       /\ "" \in {args.fromType, args.toType} )
     => ret = Nil

----------------------------------------------------------------------------
(* Properties of the logical checks *)

TheResources == args.comp.Spec.Resources

AllNamed == \A i \in 1..Len(TheResources) : TheResources[i].Name # Nil

AllAnonymous == \A i \in 1..Len(TheResources) : TheResources[i].Name = Nil

\* C14: RejectMixedTemplates returns no error exactly when every template
\* is named or every template is anonymous, and one error otherwise.
C14_MixedTemplatesRejected ==
  Done("RejectMixedTemplates")
  => /\ (ret = <<>>) <=> (AllNamed \/ AllAnonymous)
     /\ Len(ret) <= 1

\* An anonymous template between two named ones: one error.
C14_AnonymousAmongNamed ==
  /\ Done("RejectMixedTemplates")
  /\ Len(TheResources) = 3
  /\ TheResources[1].Name # Nil
  /\ TheResources[2].Name = Nil
  /\ TheResources[3].Name # Nil
  /\ ret = Invalid(<<"spec", "resources">>)

\* The 0-based indexes of the named templates whose name an earlier
\* template has.
LaterOccurrences ==
  { i \in 0..(Len(TheResources) - 1) :
      /\ TheResources[i + 1].Name # Nil
      /\ \E j \in 1..i : TheResources[j].Name = TheResources[i + 1].Name }

\* C15: RejectDuplicateNames returns one error for each named template
\* whose name an earlier template has, at the index of that template, in
\* order, and no other error.
C15_OneErrorPerLaterOccurrence ==
  Done("RejectDuplicateNames")
  => /\ Len(ret) = Cardinality(LaterOccurrences)
     /\ \A k \in 1..Len(ret) :
          \E i \in LaterOccurrences : <<ret[k]>> = Invalid(<<"spec", "resources", Index(i)>>)
     /\ \A k \in 1..Len(ret) : \A l \in 1..Len(ret) : ret[k] = ret[l] => k = l

\* Three templates of one name: two errors, at the second and the third.
C15_ThreeOfOneName ==
  /\ Done("RejectDuplicateNames")
  /\ Len(TheResources) = 3
  /\ \A i \in 1..3 : TheResources[i].Name = Ptr("foo")
  /\ ret = Invalid(<<"spec", "resources", Index(1)>>)
           \o Invalid(<<"spec", "resources", Index(2)>>)

ThePatchSets == args.comp.Spec.PatchSets

DuplicatePatchSetName ==
  \E i \in 1..Len(ThePatchSets) : \E j \in 1..(i - 1) :
    ThePatchSets[j].Name = ThePatchSets[i].Name

\* C16: a composition with two patch sets of one name gets an error from
\* RejectInvalidPatchSets, and so from the chain of logical checks.
C16_DuplicatePatchSetNameRejected ==
  ( /\ Done("RejectInvalidPatchSets") \/ Done("GetLogicalChecks.Validate")
    /\ DuplicatePatchSetName )
  => ret # <<>>

----------------------------------------------------------------------------
(* Properties of ValidateComposition *)

LogicalErrs == ChainValidate(GetLogicalChecks, 1, args.comp)

PatchErrs == validatePatchesWithSchemas(args.comp, GVKToCRD(args.crds))

ConnectionErrs == ValidateConnectionDetails(args.comp, GVKToCRD(args.crds))

ReadinessErrs == ValidateReadinessCheck(args.comp, GVKToCRD(args.crds))

\* C18: the logical checks are the first validation of every call, and a
\* call whose logical checks report an error returns those errors alone
\* and runs no other validation.
C18_LogicalErrorsReturnedAlone ==
  Done("ValidateComposition")
  => /\ ret.ran[1] = "GetLogicalChecks"
     /\ LogicalErrs # <<>> => ret = Validated(LogicalErrs, <<"GetLogicalChecks">>)

\* A composition with a logical error, an ill-typed patch, a connection
\* detail and a readiness check that do not resolve: the logical error only.
C18_LogicalErrorHidesTheRest ==
  /\ Done("ValidateComposition")
  /\ LogicalErrs # <<>>
  /\ PatchErrs # <<>>
  /\ ConnectionErrs # <<>>
  /\ ReadinessErrs # <<>>
  /\ ret.errs = LogicalErrs

\* C19: a call whose logical checks pass returns the errors of the patch,
\* connection detail and readiness check validations together.
C19_SchemaErrorsCollected ==
  ( /\ Done("ValidateComposition")
    /\ LogicalErrs = <<>>
    /\ PatchErrs \o ConnectionErrs \o ReadinessErrs # <<>> )
  => ret.errs = PatchErrs \o ConnectionErrs \o ReadinessErrs

----------------------------------------------------------------------------
(* Properties of the validation mode *)

\* The value of the validation mode annotation, "" when there is none.
AnnotatedMode ==
  IF args.comp.Annotations = Nil THEN ""
  ELSE IF CompositionValidationModeAnnotation \notin DOMAIN Deref(args.comp.Annotations)
  THEN ""
  ELSE Deref(args.comp.Annotations)[CompositionValidationModeAnnotation]

\* C20: the mode is loose when the annotation is absent or empty, the
\* annotation's value when that is strict or loose, and an error for
\* every other value.
C20_ModeOfAnnotation ==
  Done("getCompositionValidationMode")
  => IF AnnotatedMode = ""
     THEN ret = [mode |-> CompositionValidationModeLoose, err |-> ""]
     ELSE IF AnnotatedMode \in {"strict", "loose"}
     THEN ret = [mode |-> AnnotatedMode, err |-> ""]
     ELSE ret.err # ""

----------------------------------------------------------------------------
(* Properties of the resolver on undeclared fields and on arrays *)

\* The node the declared properties lead to from `node` by the segments
\* k..n, or Nil when one of them is not a declared property.
RECURSIVE DeclaredNode(_, _, _, _)
DeclaredNode(node, segments, k, n) ==
  IF k > n THEN Ptr(node)
  ELSE IF segments[k].Type = SegmentField /\ segments[k].Field \in DOMAIN node.Properties
  THEN DeclaredNode(node.Properties[segments[k].Field], segments, k + 1, n)
  ELSE Nil

TheSegments == ResolvedSegments(Parse(args.fieldPath).segments)

LastSegment == TheSegments[Len(TheSegments)]

\* The node the last segment of the path is resolved on.
ParentNode ==
  DeclaredNode(Deref(ResolvedAgainst(SchemaNamed(args.schema), Parse(args.fieldPath).segments)),
               TheSegments, 1, Len(TheSegments) - 1)

\* A path was resolved whose last segment is resolved on a node that its
\* other segments reach through declared properties.
LastSegmentResolved ==
  /\ Done("validateFieldPath")
  /\ args.schema # "none"
  /\ Parse(args.fieldPath).err = ""
  /\ Len(TheSegments) > 0
  /\ ParentNode # Nil

\* The last segment names a field its object node does not declare.
UndeclaredField ==
  /\ LastSegmentResolved
  /\ LastSegment.Type = SegmentField
  /\ Deref(ParentNode).Type \in {"", ObjectKnownJSONType}
  /\ LastSegment.Field \notin DOMAIN Deref(ParentNode).Properties

PreservesUnknownFields(node) == BoolDeref(node.XPreserveUnknownFields, FALSE)

AllowsAdditionalProperties(node) ==
  node.AdditionalProperties # Nil /\ Deref(node.AdditionalProperties).Allows

\* C26, as stated: a field that its object node does not declare resolves
\* to the unknown type, not required, without error when the node
\* preserves unknown fields or allows additional properties, and to an
\* error otherwise.
C26_UndeclaredFieldIsUnknown ==
  UndeclaredField
  => IF \/ PreservesUnknownFields(Deref(ParentNode))
        \/ AllowsAdditionalProperties(Deref(ParentNode))
     THEN ret = PathResult("", FALSE, "")
     ELSE ret.err # ""

\* C26, amended: a field that its object node does not declare resolves
\* without error and not required when the node preserves unknown fields
\* or allows additional properties, to the unknown type when the node
\* preserves unknown fields or its additional properties have no schema
\* and to the type of the schema of the additional properties otherwise;
\* it is an error when neither holds, whatever the required list says.
C26_UndeclaredFieldTakesAdditionalSchema ==
  UndeclaredField
  => LET node == Deref(ParentNode) IN
     IF PreservesUnknownFields(node) THEN ret = PathResult("", FALSE, "")
     ELSE IF AllowsAdditionalProperties(node)
     THEN IF Deref(node.AdditionalProperties).Schema = Nil
          THEN ret = PathResult("", FALSE, "")
          ELSE ret = PathResult(Deref(Deref(node.AdditionalProperties).Schema).Type, FALSE, "")
     ELSE ret = PathResult("", FALSE, "field is not valid according to the schema")

\* An undeclared field, listed as required, of a node whose additional
\* properties are strings: resolved to string, not required.
C26_GhostOfTypedNode ==
  /\ UndeclaredField
  /\ args.fieldPath = <<"spec", "typed", "ghost">>
  /\ ret = PathResult(StringKnownJSONType, FALSE, "")

\* The last segment is an index into an array node.
IndexIntoArray ==
  /\ LastSegmentResolved
  /\ LastSegment.Type = SegmentIndex
  /\ Deref(ParentNode).Type = ArrayKnownJSONType

\* The item schemas an array node has, position by position.
PositionalSchemas(node) ==
  IF node.Items = Nil THEN <<>> ELSE Deref(node.Items).JSONSchemas

HasNoItemSchema(node) ==
  \/ node.Items = Nil
  \/ Deref(node.Items).Schema = Nil /\ Deref(node.Items).JSONSchemas = <<>>

\* C27: an index into an array that has no item schema at all resolves to
\* the unknown type, not required, without error.
C27_ArrayWithoutItemsIsUnknown ==
  (IndexIntoArray /\ HasNoItemSchema(Deref(ParentNode)))
  => ret = PathResult("", FALSE, "")

\* C28: an index into an array of N item schemas given position by
\* position is accepted only when it is less than N.
C28_IndexWithinPositionalSchemas ==
  ( /\ IndexIntoArray
    /\ Deref(ParentNode).Items # Nil
    /\ Deref(Deref(ParentNode).Items).Schema = Nil
    /\ PositionalSchemas(Deref(ParentNode)) # <<>>
    /\ ret.err = "" )
  => LastSegment.Index < Len(PositionalSchemas(Deref(ParentNode)))

\* C30: a resolution that ends in an error or in the unknown type is not
\* required, and a type resolved without error is a known JSON type, so
\* required is only reported with a known type.
C30_RequiredOnlyWithKnownType ==
  Done("validateFieldPath")
  => /\ (ret.err # "" \/ ret.fieldType = "") => ~ret.required
     /\ (ret.err = "" /\ ret.fieldType # "") => ret.fieldType \in KnownJSONTypes
     /\ ret.required => ret.fieldType \in KnownJSONTypes
     /\ Cardinality(KnownJSONTypes) = 7

\* A required field without a type: an error, and not required.
C30_RequiredFieldWithoutType ==
  /\ Done("validateFieldPath")
  /\ args.schema = "open"
  /\ args.fieldPath = <<"spec", "untyped">>
  /\ ret = PathResult("", FALSE, "unsupported type")

----------------------------------------------------------------------------
(* Properties of the readiness checks *)

TheChecks == args.comp.Spec.Resources[1].ReadinessChecks

\* ValidateReadinessCheck was called on a template whose schema is at hand.
ReadinessValidated ==
  /\ Done("ValidateReadinessCheck")
  /\ ManagedGVK \in DOMAIN args.crds

\* The type a check wants the field to have.
WantedType(r) ==
  IF r.Type = ReadinessCheckTypeMatchString THEN StringKnownJSONType
  ELSE IntegerKnownJSONType

\* A check to match a string or an integer that is complete in itself.
IsMatchCheck(r) ==
  /\ r.Type \in {ReadinessCheckTypeMatchString, ReadinessCheckTypeMatchInteger}
  /\ ReadinessCheckValidate(r) = ""

\* The field path of the check resolves, to the type the check wants.
ResolvesToWanted(r) ==
  LET info == validateFieldPath(SchemaNamed(args.crds[ManagedGVK]), r.FieldPath) IN
  info.err = "" /\ info.fieldType = WantedType(r)

\* The errors returned for the j-th check (0-based) of the template.
ErrorsOfCheck(j) ==
  { k \in 1..Len(ret) :
      /\ Len(ret[k].Field) >= Len(ReadinessCheckPath(0, j))
      /\ SubSeq(ret[k].Field, 1, Len(ReadinessCheckPath(0, j))) = ReadinessCheckPath(0, j) }

\* C25: a check to match a string (an integer) is accepted exactly when
\* its field path resolves without error to the type string (integer);
\* every other such check gets one invalid error at its field path,
\* whatever the checks before it got.
C25_MatchChecksNeedTheirType ==
  ReadinessValidated
  => \A j \in 0..(Len(TheChecks) - 1) :
       IsMatchCheck(TheChecks[j + 1])
       => IF ResolvesToWanted(TheChecks[j + 1])
          THEN ErrorsOfCheck(j) = {}
          ELSE /\ Cardinality(ErrorsOfCheck(j)) = 1
               /\ \A k \in ErrorsOfCheck(j) :
                    ret[k] = Invalid(ReadinessCheckPath(0, j) \o <<"fieldPath">>)[1]

\* Two checks to match against a field of another type and against a field
\* that does not resolve: one error each.
C25_TwoChecksTwoErrors ==
  /\ ReadinessValidated
  /\ Len(TheChecks) = 2
  /\ TheChecks[1] = ReadinessCheck(ReadinessCheckTypeMatchInteger, <<"spec", "strOpt">>, "ok", 1)
  /\ TheChecks[2] = ReadinessCheck(ReadinessCheckTypeMatchString, <<"spec", "missing">>, "ok", 1)
  /\ Len(ret) = 2

----------------------------------------------------------------------------
(* The composition a validation is given *)

\* C24: a call of ValidateComposition leaves the composition it is given
\* as it was, its resource version included.
C24_CompositionLeftUnchanged ==
  [][fn = "ValidateComposition" => args'.comp = args.comp]_vars

----------------------------------------------------------------------------
(* Properties of the admission webhook *)

TheMode == getCompositionValidationMode(args.comp)

\* The lookup of the CRD of a GVK finds it.
LookupSucceeds(gvk) ==
  /\ gvk \notin args.cluster.failing
  /\ Len(args.cluster.items[gvk]) = 1

ListCallsWork == args.cluster.failing = {}

\* C29: the map of getNeededCRDs has an entry for the GVK of every
\* resource template whose CRD was found, whether or not the CRD of the
\* composite type was.
C29_FoundResourceCRDsAreKept ==
  ( /\ Done("getNeededCRDs")
    /\ \A k \in 1..Len(ret.errs) : IsNotFound(ret.errs[k]) )
  => \A i \in 1..Len(TheResources) :
       LookupSucceeds(TheResources[i].Base.GVK)
       => TheResources[i].Base.GVK \in DOMAIN ret.crds

\* A call of either ValidateCreate returned, on a valid validation mode.
Admission ==
  /\ Done("ValidateCreate") \/ Done("ValidateCreate_custom_validator")
  /\ TheMode.err = ""

NoPatchesDeclared ==
  /\ args.comp.Spec.PatchSets = <<>>
  /\ \A i \in 1..Len(TheResources) : TheResources[i].Patches = <<>>

NoSchemaAtAll ==
  /\ ListCallsWork
  /\ \A gvk \in DOMAIN args.cluster.items : args.cluster.items[gvk] = <<>>

PatchErrsOfTemplate(i) ==
  validatePatchesWithSchemas(
    Composition(CompositeGVK, <<TheResources[i]>>, <<>>),
    [g \in {CompositeGVK, TheResources[i].Base.GVK} |->
       Ptr(CRDs[args.cluster.items[g][1]])])

\* C22: in loose mode with the CRD of one template missing, an ill-typed
\* patch of another template whose CRD and whose composite type's CRD are
\* there is still reported.
C22_OtherTemplatesStillChecked ==
  ( /\ Done("ValidateCreate")
    /\ TheMode = [mode |-> CompositionValidationModeLoose, err |-> ""]
    /\ ListCallsWork
    /\ LogicalErrs = <<>>
    /\ LookupSucceeds(CompositeGVK)
    /\ \E i \in 1..Len(TheResources) : ~LookupSucceeds(TheResources[i].Base.GVK)
    /\ \E i \in 1..Len(TheResources) :
         /\ LookupSucceeds(TheResources[i].Base.GVK)
         /\ PatchErrsOfTemplate(i) # <<>> )
  => ret.msg = "there were some errors while validating the patches"

\* C23: whatever the mode and whatever CRDs are found, a composition with
\* a structural error is refused by ValidateCreate with that error.
C23_StructuralErrorsAlwaysReported ==
  ( /\ Admission
    /\ ListCallsWork
    /\ LogicalErrs # <<>> )
  => ret.msg = "invalid composition"

====
